---- MODULE Spec2Model ----
(***************************************************************************)
(* A model of the anti-abuse engine of the live-voting repository:         *)
(* SlidingWindow, CoVotingGraph and AntiAbuseEngine of                      *)
(* src/AntiAbuseEngine.h / src/AntiAbuseEngine.cpp, with the VotingSystem   *)
(* of src/VotingSystem.cpp that enforces one vote per user and proposal     *)
(* and the StreamProcessor of src/StreamProcessor.cpp that carries events.  *)
(*                                                                         *)
(* Time points are integers: ticks of the clock, TicksPerMs of them in a   *)
(* millisecond.  A double is modelled as an exact rational                 *)
(* <<numerator, denominator>> in lowest terms with a positive denominator, *)
(* so the model ignores floating-point rounding.                           *)
(* A std::unordered_map is a function whose DOMAIN is its key set; an      *)
(* operator[] of the code that inserts a default entry is modelled by      *)
(* Touch.  The iteration order of an unordered container is an input of    *)
(* the operation that iterates (a permutation of the keys).                *)
(***************************************************************************)
EXTENDS Integers, Sequences, FiniteSets, TLC

VARIABLES
    \* SlidingWindow (a stand-alone window object)
    timestamps,             \* std::deque<time_point>
    inserted,               \* the argument of the last addEvent, -1 before the first
    \* CoVotingGraph
    adjacency,              \* user -> (user -> int)
    proposalVoters,         \* proposal -> set of users
    \* AntiAbuseEngine
    userVoteHistory,        \* user -> sequence of VoteEvent
    userVelocityWindows,    \* user -> SlidingWindow (its timestamps)
    userIPs,                \* user -> set of ip hashes
    userDevices,            \* user -> set of device hashes
    ipToUsers,              \* ip hash -> sequence of users
    deviceToUsers,          \* device hash -> sequence of users
    botDetectionCache,      \* user -> BotDetectionResult
    collusionDetectionCache,\* sequence of CollusionDetectionResult
    userCredibilityScores,  \* user -> UserCredibilityScore
    threatAlerts,           \* sequence of ThreatAlert
    suspiciousUsers,        \* user -> bool
    velocityThreshold,
    deltaThresholdMs,
    collusionThreshold,
    botLikelihoodThreshold,
    alertCounter,           \* the static counter of generateThreatAlert
    \* VotingSystem
    users,                  \* user id -> User (its votedProposals)
    proposals,              \* proposal id -> Proposal
    proposalRankings,       \* the Proposals held by the priority queue
    auditLog,               \* the data of the entries of the TamperEvidentLog
    \* IntelligenceEngine of the VotingSystem (what learnFromVote writes)
    userProfiles,           \* user id -> votingHistory of the UserProfile
    userVotingPatterns,     \* user id -> the proposals of the recorded votes
    proposalTrends,         \* proposal id -> VotingTrend
    \* StreamProcessor
    eventQueue,             \* std::queue<StreamEvent>
    isRunning,
    handlers,               \* the event types that have a handler registered
    accepted,               \* the events produce has queued, in their order
    delivered,              \* the events passed to a handler, in their order
    \* a thread inside CoVotingGraph::addVote
    voteInFlight,           \* its arguments, the voters its loop has yet to visit
                            \* and the voter whose second increment is due
    last,                   \* the last call made: its name, its user argument
                            \* and, for a query, the score it returned
    calls                   \* number of state-changing calls made so far

graphVars == <<adjacency, proposalVoters>>
windowVars == <<timestamps, inserted>>
engineVars == <<userVoteHistory, userVelocityWindows, userIPs, userDevices,
                ipToUsers, deviceToUsers, botDetectionCache,
                collusionDetectionCache, userCredibilityScores, threatAlerts,
                suspiciousUsers, velocityThreshold, deltaThresholdMs,
                collusionThreshold, botLikelihoodThreshold, alertCounter>>
votingVars == <<users, proposals, proposalRankings, auditLog,
                userProfiles, userVotingPatterns, proposalTrends>>
streamVars == <<eventQueue, isRunning, handlers, accepted, delivered>>
threadVars == <<voteInFlight>>
vars == <<windowVars, graphVars, engineVars, votingVars, streamVars, threadVars,
          last, calls>>

----------------------------------------------------------------------------
(* Bounds of the model *)

\* SpecWindow: number of addEvent calls on the stand-alone window
MaxWindowEvents == 4
\* SpecGraph: number of addVote calls on the stand-alone graph
MaxVotes == 5
\* largest minCoVotes compared by the threshold claims
MaxMinCoVotes == 3
\* Spec: number of calls on the engine
MaxCalls == 4
\* SpecScores: number of calls on the engine
MaxScoreCalls == 4
\* SpecCollusion: number of calls on the engine
MaxCollusionCalls == 3
\* SpecAlerts: number of calls on the engine
MaxAlertCalls == 5
\* SpecBots: number of calls on the engine
MaxBotCalls == 3
\* SpecCredibility: number of calls on the engine
MaxCredibilityCalls == 3

\* the ticks of the time points in one millisecond (std::chrono::system_clock
\* counts ticks finer than a millisecond)
TicksPerMs == 2

\* SpecRace: number of steps of the two threads
MaxRaceSteps == 7

\* SpecVoting: number of calls on the VotingSystem
MaxVotingCalls == 5

\* SpecStream: number of calls on the StreamProcessor
MaxStreamCalls == 5
\* SpecStream: the maxSize the StreamProcessor is constructed with
MaxQueueSize == 2
\* SpecStream: the largest maxEvents given to consume
MaxBatch == 2

\* SpecCommunities: number of addVote calls on the stand-alone graph
MaxCommunityVotes == 5

Users == {"u1", "u2", "u3"}
\* SpecCommunities: the users of the stand-alone graph
CommunityUsers == {"u1", "u2", "u3", "u4"}
Proposals == {"p1", "p2"}
\* time points offered to the stand-alone window (ticks): 0 s, 50 s, 150 s,
\* one tick and three ticks after 150 s, 210 s
WindowTimes == {0, 50000 * TicksPerMs, 150000 * TicksPerMs, 150000 * TicksPerMs + 1,
                150000 * TicksPerMs + 3, 210000 * TicksPerMs}
\* the inputs of the engine's calls
EngineUsers == {"u1", "u2"}
EngineProposals == {"p1"}
\* 0 ms and 100 ms
EngineTimes == {0, 100 * TicksPerMs}
\* SpecScores: the user who votes; the queries are about EngineUsers
Voters == {"u1"}
\* the proposals of the votes that build the engine state ColludedEngine
SeedProposals == <<"s1", "s2", "s3", "s4", "s5">>
\* the identifiers HashUtils draws for users and for proposals
UserIds == {"USER_1", "USER_2"}
ProposalIds == {"PROP_1", "PROP_2"}
\* <<ipHash, deviceHash>> of an event: none given, or both
Identities == { <<"", "">>, <<"ip1", "d1">> }

----------------------------------------------------------------------------
(* Exact rationals standing for the doubles of the code *)

\* The operators bind each operand once (a one-element set), so that an
\* operand is evaluated once however often its parts are read.
Abs(n) == IF n < 0 THEN -n ELSE n

RECURSIVE GCD(_, _)
GCD(a, b) == CHOOSE r \in { IF y = 0 THEN x ELSE GCD(y, x % y) : x \in {a}, y \in {b} } : TRUE

Reduce(n, d, g) == IF n = 0 THEN <<0, 1>> ELSE <<n \div g, d \div g>>

\* n/d in lowest terms, d > 0
Norm(n, d) == CHOOSE r \in { Reduce(a, b, GCD(Abs(a), b)) : a \in {n}, b \in {d} } : TRUE

R(n, d) == Norm(n, d)
RInt(n) == <<n, 1>>
RAdd(x, y) ==
    CHOOSE r \in { Norm(a[1] * b[2] + b[1] * a[2], a[2] * b[2]) : a \in {x}, b \in {y} } : TRUE
RSub(x, y) ==
    CHOOSE r \in { Norm(a[1] * b[2] - b[1] * a[2], a[2] * b[2]) : a \in {x}, b \in {y} } : TRUE
RMul(x, y) ==
    CHOOSE r \in { Norm(a[1] * b[1], a[2] * b[2]) : a \in {x}, b \in {y} } : TRUE
\* x / y for y # 0
RDiv(x, y) ==
    CHOOSE r \in { IF b[1] > 0 THEN Norm(a[1] * b[2], a[2] * b[1])
                              ELSE Norm(-(a[1] * b[2]), a[2] * (-b[1]))
                   : a \in {x}, b \in {y} } : TRUE
RLt(x, y) == \E a \in {x}, b \in {y} : a[1] * b[2] < b[1] * a[2]
RLe(x, y) == \E a \in {x}, b \in {y} : a[1] * b[2] <= b[1] * a[2]
\* std::min(a, b) is (b < a) ? b : a ; std::max(a, b) is (a < b) ? b : a
RMin(a, b) == CHOOSE r \in { IF RLt(y, x) THEN y ELSE x : x \in {a}, y \in {b} } : TRUE
RMax(a, b) == CHOOSE r \in { IF RLt(x, y) THEN y ELSE x : x \in {a}, y \in {b} } : TRUE

Zero == RInt(0)
One == RInt(1)

\* m[k] of an unordered_map, which inserts a default value for a new key
Touch(m, k, dflt) == IF k \in DOMAIN m THEN m ELSE m @@ (k :> dflt)
\* m.erase(k)
Erase(m, k) == IF DOMAIN m \ {k} = {} THEN <<>> ELSE [x \in DOMAIN m \ {k} |-> m[x]]
Empty == <<>>

Perms(S) == {s \in [1..Cardinality(S) -> S] : \A x \in S : \E i \in DOMAIN s : s[i] = x}
SeqToSet(s) == {s[i] : i \in DOMAIN s}

----------------------------------------------------------------------------
(* SlidingWindow *)

\* velocityWindowSeconds / the default of SlidingWindow(int seconds)
WindowSeconds == 60

RECURSIVE cleanup(_, _)
cleanup(ts, currentTime) ==
    LET cutoff == currentTime - WindowSeconds * 1000 * TicksPerMs
    IN  IF ts # <<>> /\ Head(ts) < cutoff
        THEN cleanup(Tail(ts), currentTime)
        ELSE ts

addEvent(ts, timestamp) == cleanup(Append(ts, timestamp), timestamp)

getRate(ts) ==
    IF ts = <<>> THEN Zero ELSE RMul(R(Len(ts), WindowSeconds), RInt(60))

\* std::chrono::duration_cast<milliseconds>(d).count(): d in whole
\* milliseconds, rounded toward zero
durationCastMs(d) ==
    IF d >= 0 THEN d \div TicksPerMs ELSE -((-d) \div TicksPerMs)

RECURSIVE totalGapMs(_, _)
totalGapMs(ts, i) ==
    IF i > Len(ts) THEN 0
    ELSE durationCastMs(ts[i] - ts[i - 1]) + totalGapMs(ts, i + 1)

getAverageGapMs(ts) ==
    IF Len(ts) < 2 THEN Zero ELSE R(totalGapMs(ts, 2), Len(ts) - 1)

----------------------------------------------------------------------------
(* CoVotingGraph *)

\* addVoteLoop with the symmetric increment left out
RECURSIVE addVoteLoopOneWay(_, _, _)
addVoteLoopOneWay(adj, userId, others) ==
    IF others = {} THEN adj
    ELSE LET otherUser == CHOOSE o \in others : TRUE
             a1 == Touch(adj, userId, Empty)
             a2 == [a1 EXCEPT ![userId] = Touch(@, otherUser, 0)]
             a3 == [a2 EXCEPT ![userId][otherUser] = @ + 1]
         IN  addVoteLoopOneWay(a3, userId, others \ {otherUser})

\* the loop of addVote over the voters of the proposal: both directed
\* weights are incremented for every other recorded voter
RECURSIVE addVoteLoop(_, _, _)
addVoteLoop(adj, userId, others) ==
    IF others = {} THEN adj
    ELSE LET otherUser == CHOOSE o \in others : TRUE
             a1 == Touch(adj, userId, Empty)
             a2 == [a1 EXCEPT ![userId] = Touch(@, otherUser, 0)]
             a3 == [a2 EXCEPT ![userId][otherUser] = @ + 1]
             a4 == Touch(a3, otherUser, Empty)
             a5 == [a4 EXCEPT ![otherUser] = Touch(@, userId, 0)]
             a6 == [a5 EXCEPT ![otherUser][userId] = @ + 1]
         IN  addVoteLoop(a6, userId, others \ {otherUser})

\* the graph [adjacency, proposalVoters] after addVote(userId, proposalId)
addVote(g, userId, proposalId) ==
    LET pv0 == Touch(g.proposalVoters, proposalId, {})
        pv == [pv0 EXCEPT ![proposalId] = @ \cup {userId}]
        voters == pv[proposalId]
    IN  [adjacency |-> addVoteLoop(g.adjacency, userId, voters \ {userId}),
         proposalVoters |-> pv]

getCoVoteCount(adj, user1, user2) ==
    IF user1 \notin DOMAIN adj THEN 0
    ELSE IF user2 \notin DOMAIN adj[user1] THEN 0
    ELSE adj[user1][user2]

\* the keys of map m in the iteration order ord (a permutation of Users)
KeysInOrder(m, ord) == SelectSeq(ord, LAMBDA k : k \in DOMAIN m)

\* bfsNeighbors with the comparison of coVotes to minCoVotes turned around
RECURSIVE bfsNeighborsAtMost(_, _, _, _, _)
bfsNeighborsAtMost(row, nbrs, minCoVotes, queue, visited) ==
    IF nbrs = <<>> THEN [queue |-> queue, visited |-> visited]
    ELSE LET neighbor == Head(nbrs)
             coVotes == row[neighbor]
         IN  IF neighbor \notin visited /\ coVotes <= minCoVotes
             THEN bfsNeighborsAtMost(row, Tail(nbrs), minCoVotes,
                                     Append(queue, neighbor), visited \cup {neighbor})
             ELSE bfsNeighborsAtMost(row, Tail(nbrs), minCoVotes, queue, visited)

\* the inner loop of the BFS over the neighbours of current
RECURSIVE bfsNeighbors(_, _, _, _, _)
bfsNeighbors(row, nbrs, minCoVotes, queue, visited) ==
    IF nbrs = <<>> THEN [queue |-> queue, visited |-> visited]
    ELSE LET neighbor == Head(nbrs)
             coVotes == row[neighbor]
         IN  IF neighbor \notin visited /\ coVotes >= minCoVotes
             THEN bfsNeighbors(row, Tail(nbrs), minCoVotes,
                               Append(queue, neighbor), visited \cup {neighbor})
             ELSE bfsNeighbors(row, Tail(nbrs), minCoVotes, queue, visited)

\* bfs following the edges of the first user only
RECURSIVE bfsDirect(_, _, _, _, _, _)
bfsDirect(adj, minCoVotes, inner, queue, visited, community) ==
    IF queue = <<>> THEN [community |-> community, visited |-> visited]
    ELSE LET current == Head(queue)
             step == IF current \in DOMAIN adj /\ community = <<>>
                     THEN bfsNeighbors(adj[current], KeysInOrder(adj[current], inner),
                                       minCoVotes, Tail(queue), visited)
                     ELSE [queue |-> Tail(queue), visited |-> visited]
         IN  bfsDirect(adj, minCoVotes, inner, step.queue, step.visited,
                       Append(community, current))

\* the while (!queue.empty()) loop
RECURSIVE bfs(_, _, _, _, _, _)
bfs(adj, minCoVotes, inner, queue, visited, community) ==
    IF queue = <<>> THEN [community |-> community, visited |-> visited]
    ELSE LET current == Head(queue)
             step == IF current \in DOMAIN adj
                     THEN bfsNeighbors(adj[current], KeysInOrder(adj[current], inner),
                                       minCoVotes, Tail(queue), visited)
                     ELSE [queue |-> Tail(queue), visited |-> visited]
         IN  bfs(adj, minCoVotes, inner, step.queue, step.visited,
                 Append(community, current))

\* the for loop over adjacency
RECURSIVE communitiesLoop(_, _, _, _, _, _)
communitiesLoop(adj, minCoVotes, keys, inner, visited, communities) ==
    IF keys = <<>> THEN communities
    ELSE LET user == Head(keys)
         IN  IF user \in visited
             THEN communitiesLoop(adj, minCoVotes, Tail(keys), inner, visited, communities)
             ELSE LET r == bfs(adj, minCoVotes, inner, <<user>>, visited \cup {user}, <<>>)
                  IN  communitiesLoop(adj, minCoVotes, Tail(keys), inner, r.visited,
                                      IF Len(r.community) >= 2
                                      THEN Append(communities, r.community)
                                      ELSE communities)

\* detectCommunities(minCoVotes) when adjacency iterates in order outer and
\* every inner map in order inner
detectCommunities(adj, minCoVotes, outer, inner) ==
    communitiesLoop(adj, minCoVotes, KeysInOrder(adj, outer), inner, {}, <<>>)

Graph == [adjacency |-> adjacency, proposalVoters |-> proposalVoters]

----------------------------------------------------------------------------
(* AntiAbuseEngine.  The handlers are operators from an engine state e (a  *)
(* record of the members of the class, the two maps of its coVotingGraph   *)
(* and the static alertCounter) to the state after the call.  The          *)
(* human-readable strings (reason, description) and the wall-clock         *)
(* timestamp of an alert are left out of the records.                      *)

Eng == [userVoteHistory |-> userVoteHistory,
        userVelocityWindows |-> userVelocityWindows,
        userIPs |-> userIPs,
        userDevices |-> userDevices,
        ipToUsers |-> ipToUsers,
        deviceToUsers |-> deviceToUsers,
        adjacency |-> adjacency,
        proposalVoters |-> proposalVoters,
        botDetectionCache |-> botDetectionCache,
        collusionDetectionCache |-> collusionDetectionCache,
        userCredibilityScores |-> userCredibilityScores,
        threatAlerts |-> threatAlerts,
        suspiciousUsers |-> suspiciousUsers,
        velocityThreshold |-> velocityThreshold,
        deltaThresholdMs |-> deltaThresholdMs,
        collusionThreshold |-> collusionThreshold,
        botLikelihoodThreshold |-> botLikelihoodThreshold,
        alertCounter |-> alertCounter]

\* minCoVotesForCollusion(5) of the constructor; nothing changes it
MinCoVotesForCollusion == 5

\* AntiAbuseEngine(velThreshold = 30.0, deltaThreshold = 200.0, windowSeconds = 60)
\* with the static alertCounter at counter
NewEngine(velThreshold, deltaThreshold, counter) ==
    [userVoteHistory |-> Empty,
     userVelocityWindows |-> Empty,
     userIPs |-> Empty,
     userDevices |-> Empty,
     ipToUsers |-> Empty,
     deviceToUsers |-> Empty,
     adjacency |-> Empty,
     proposalVoters |-> Empty,
     botDetectionCache |-> Empty,
     collusionDetectionCache |-> <<>>,
     userCredibilityScores |-> Empty,
     threatAlerts |-> <<>>,
     suspiciousUsers |-> Empty,
     velocityThreshold |-> velThreshold,
     deltaThresholdMs |-> deltaThreshold,
     collusionThreshold |-> R(7, 10),
     botLikelihoodThreshold |-> R(7, 10),
     alertCounter |-> counter]

\* markUserSuspicious turning the flag of the user over
markUserSuspiciousFlip(e, userId) ==
    [e EXCEPT !.suspiciousUsers = [Touch(@, userId, FALSE) EXCEPT ![userId] = ~@]]

\* markUserSuspicious flagging every user with a vote history
markUserSuspiciousAll(e, userId) ==
    [e EXCEPT !.suspiciousUsers =
        [u \in DOMAIN @ \cup DOMAIN e.userVoteHistory \cup {userId} |-> TRUE]]

markUserSuspicious(e, userId) ==
    [e EXCEPT !.suspiciousUsers = [Touch(@, userId, FALSE) EXCEPT ![userId] = TRUE]]

isUserSuspicious(e, userId) ==
    userId \in DOMAIN e.suspiciousUsers /\ e.suspiciousUsers[userId]

\* generateThreatAlert numbering the alerts by their place in the list
generateThreatAlertByPlace(e, alertType, severity, involved) ==
    LET alert == [alertId |-> Len(e.threatAlerts) + 1,
                  alertType |-> alertType,
                  severity |-> severity,
                  involvedUsers |-> involved,
                  resolved |-> FALSE]
    IN  [e EXCEPT !.alertCounter = Len(e.threatAlerts) + 1,
                  !.threatAlerts = Append(@, alert)]

generateThreatAlert(e, alertType, severity, involved) ==
    LET alert == [alertId |-> e.alertCounter + 1,
                  alertType |-> alertType,
                  severity |-> severity,
                  involvedUsers |-> involved,
                  resolved |-> FALSE]
    IN  [e EXCEPT !.alertCounter = @ + 1,
                  !.threatAlerts = Append(@, alert)]

calculateVotingVelocity(e, userId) ==
    IF userId \in DOMAIN e.userVelocityWindows
    THEN getRate(e.userVelocityWindows[userId])
    ELSE Zero

calculateAvgInterVoteGap(e, userId) ==
    IF userId \in DOMAIN e.userVelocityWindows
    THEN getAverageGapMs(e.userVelocityWindows[userId])
    ELSE Zero

\* detectBotBehavior letting a gap of 0 trigger the gap rule
detectBotBehaviorZeroGap(e, userId) ==
    LET velocity == calculateVotingVelocity(e, userId)
        avgGap == calculateAvgInterVoteGap(e, userId)
    IN  RLt(e.velocityThreshold, velocity)
        \/ (RLe(Zero, avgGap) /\ RLt(avgGap, e.deltaThresholdMs))

detectBotBehavior(e, userId) ==
    LET velocity == calculateVotingVelocity(e, userId)
        avgGap == calculateAvgInterVoteGap(e, userId)
    IN  RLt(e.velocityThreshold, velocity)
        \/ (RLt(Zero, avgGap) /\ RLt(avgGap, e.deltaThresholdMs))

\* velocityScoreOf dividing by the threshold itself
velocityScoreOfThreshold(votingVelocity, velThreshold) ==
    IF velThreshold[1] = 0 THEN One
    ELSE RMin(One, RDiv(votingVelocity, velThreshold))

\* std::min(1.0, votingVelocity / (velocityThreshold * 2)): a zero threshold
\* divides by zero, giving +inf or NaN, and std::min(1.0, .) is then 1.0
velocityScoreOf(votingVelocity, velThreshold) ==
    IF velThreshold[1] = 0 THEN One
    ELSE RMin(One, RDiv(votingVelocity, RMul(velThreshold, RInt(2))))

\* gapScoreOf without the gap term
gapScoreOfNothing(avgGap, deltaThreshold) == Zero

gapScoreOf(avgGap, deltaThreshold) ==
    IF RLt(Zero, avgGap) /\ RLt(avgGap, deltaThreshold)
    THEN RSub(One, RDiv(avgGap, deltaThreshold))
    ELSE Zero

botLikelihoodOf(velocityScore, gapScore, deviceScore, ipScore) ==
    RMin(One, RAdd(RAdd(RMul(R(4, 10), velocityScore), RMul(R(4, 10), gapScore)),
                   RAdd(deviceScore, ipScore)))

updateBotDetection(e, userId) ==
    LET e1 == [e EXCEPT !.userDevices = Touch(@, userId, {}),
                        !.userIPs = Touch(@, userId, {})]
        votingVelocity == calculateVotingVelocity(e, userId)
        avgInterVoteGapMs == calculateAvgInterVoteGap(e, userId)
        deviceDiversity == Cardinality(e1.userDevices[userId])
        ipDiversity == Cardinality(e1.userIPs[userId])
        velocityScore == velocityScoreOf(votingVelocity, e.velocityThreshold)
        gapScore == gapScoreOf(avgInterVoteGapMs, e.deltaThresholdMs)
        deviceScore == IF deviceDiversity = 1 THEN R(3, 10) ELSE Zero
        ipScore == IF ipDiversity = 1 THEN R(2, 10) ELSE Zero
        result == [userId |-> userId,
                   botLikelihood |-> botLikelihoodOf(velocityScore, gapScore,
                                                     deviceScore, ipScore),
                   votingVelocity |-> votingVelocity,
                   avgInterVoteGapMs |-> avgInterVoteGapMs,
                   deviceDiversity |-> deviceDiversity,
                   ipDiversity |-> ipDiversity,
                   isSuspicious |-> detectBotBehavior(e, userId)]
        \* the reason text reads userVoteHistory[userId] when one device is known
        e2 == IF deviceDiversity = 1
              THEN [e1 EXCEPT !.userVoteHistory = Touch(@, userId, <<>>)]
              ELSE e1
        e3 == [e2 EXCEPT !.botDetectionCache =
                            [Touch(@, userId, result) EXCEPT ![userId] = result]]
    IN  IF result.isSuspicious /\ RLt(e.botLikelihoodThreshold, result.botLikelihood)
        THEN markUserSuspicious(
                 generateThreatAlert(e3, "bot_detected", result.botLikelihood, <<userId>>),
                 userId)
        ELSE e3

recordVoteEvent(e, userId, proposalId, timestamp, ipHash, deviceHash) ==
    LET h0 == Touch(e.userVoteHistory, userId, <<>>)
        event == [voteId |-> Len(h0[userId]),
                  userId |-> userId,
                  proposalId |-> proposalId,
                  timestamp |-> timestamp,
                  ipHash |-> ipHash,
                  deviceHash |-> deviceHash]
        w0 == Touch(e.userVelocityWindows, userId, <<>>)
        g == addVote([adjacency |-> e.adjacency, proposalVoters |-> e.proposalVoters],
                     userId, proposalId)
        e1 == [e EXCEPT
                 !.userVoteHistory = [h0 EXCEPT ![userId] = Append(@, event)],
                 !.userVelocityWindows = [w0 EXCEPT ![userId] = addEvent(@, timestamp)],
                 !.userIPs = IF ipHash # ""
                             THEN [Touch(@, userId, {}) EXCEPT ![userId] = @ \cup {ipHash}]
                             ELSE @,
                 !.ipToUsers = IF ipHash # ""
                               THEN [Touch(@, ipHash, <<>>) EXCEPT ![ipHash] = Append(@, userId)]
                               ELSE @,
                 !.userDevices = IF deviceHash # ""
                                 THEN [Touch(@, userId, {}) EXCEPT ![userId] = @ \cup {deviceHash}]
                                 ELSE @,
                 !.deviceToUsers = IF deviceHash # ""
                                   THEN [Touch(@, deviceHash, <<>>) EXCEPT
                                            ![deviceHash] = Append(@, userId)]
                                   ELSE @,
                 !.adjacency = g.adjacency,
                 !.proposalVoters = g.proposalVoters]
    IN  updateBotDetection(e1, userId)

\* detectBot: [e |-> the state after the call, result |-> the returned result]
detectBot(e, userId) ==
    IF userId \in DOMAIN e.botDetectionCache
    THEN [e |-> e, result |-> e.botDetectionCache[userId]]
    ELSE LET e1 == updateBotDetection(e, userId)
         IN  [e |-> e1, result |-> e1.botDetectionCache[userId]]

\* the loop of detectAllBots over userVoteHistory: [e, results]
RECURSIVE detectAllBotsLoop(_, _, _)
detectAllBotsLoop(e, keys, results) ==
    IF keys = <<>> THEN [e |-> e, results |-> results]
    ELSE CHOOSE r \in
           { detectAllBotsLoop(b.e, Tail(keys),
                               IF b.result.isSuspicious THEN Append(results, b.result)
                               ELSE results) :
                 b \in {detectBot(e, Head(keys))} } : TRUE

\* the place of user u in the sequence ord
Rank(ord, u) == CHOOSE i \in DOMAIN ord : ord[i] = u

\* no sort: the results in the order of the loop
sortByNothing(results, tie) == results

\* std::sort by descending botLikelihood; the order it leaves results of
\* equal botLikelihood in is not specified: tie is the order it leaves them in
RECURSIVE sortByLikelihood(_, _)
sortByLikelihood(results, tie) ==
    IF results = <<>> THEN <<>>
    ELSE LET first == CHOOSE i \in DOMAIN results :
                        \A j \in DOMAIN results \ {i} :
                            \/ RLt(results[j].botLikelihood, results[i].botLikelihood)
                            \/ /\ results[j].botLikelihood = results[i].botLikelihood
                               /\ Rank(tie, results[i].userId) < Rank(tie, results[j].userId)
         IN  <<results[first]>>
             \o sortByLikelihood([k \in 1..(Len(results) - 1) |->
                                      IF k < first THEN results[k] ELSE results[k + 1]],
                                  tie)

\* detectAllBots: [e |-> the state after the call, results |-> the returned list]
detectAllBots(e, ord, tie) ==
    CHOOSE r \in { [e |-> l.e, results |-> sortByLikelihood(l.results, tie)] :
                      l \in {detectAllBotsLoop(e, KeysInOrder(e.userVoteHistory, ord), <<>>)} } : TRUE

\* the double loop of updateCollusionDetection over the pairs i < j of a
\* community: [totalCoVotes, edgeCount]
RECURSIVE pairMetrics(_, _, _, _)
pairMetrics(adj, community, i, j) ==
    IF i > Len(community) THEN [totalCoVotes |-> 0, edgeCount |-> 0]
    ELSE IF j > Len(community) THEN pairMetrics(adj, community, i + 1, i + 2)
    ELSE LET rest == pairMetrics(adj, community, i, j + 1)
             coVotes == getCoVoteCount(adj, community[i], community[j])
         IN  IF coVotes > 0
             THEN [totalCoVotes |-> rest.totalCoVotes + coVotes,
                   edgeCount |-> rest.edgeCount + 1]
             ELSE rest

\* collusionScoreOf without the co-vote term
collusionScoreOfDensity(density, avgCoVotes) == RMin(One, RMul(R(1, 2), density))

collusionScoreOf(density, avgCoVotes) ==
    RMin(One, RAdd(RMul(R(1, 2), density), RMul(R(1, 2), RDiv(avgCoVotes, RInt(20)))))

collusionResult(e, community) ==
    LET m == pairMetrics(e.adjacency, community, 1, 2)
        maxPossibleEdges == (Len(community) * (Len(community) - 1)) \div 2
        density == IF maxPossibleEdges > 0 THEN R(m.edgeCount, maxPossibleEdges) ELSE Zero
        avgCoVotes == IF m.edgeCount > 0 THEN R(m.totalCoVotes, m.edgeCount) ELSE Zero
        score == collusionScoreOf(density, avgCoVotes)
    IN  [userGroup |-> community,
         collusionScore |-> score,
         coVoteCount |-> m.totalCoVotes,
         coVoteRate |-> density,
         isSuspicious |-> RLt(e.collusionThreshold, score)]

RECURSIVE markAll(_, _, _)
markAll(e, community, i) ==
    IF i > Len(community) THEN e
    ELSE markAll(markUserSuspicious(e, community[i]), community, i + 1)

\* the for loop of updateCollusionDetection over the communities
RECURSIVE collusionLoop(_, _, _)
collusionLoop(e, communities, k) ==
    IF k > Len(communities) THEN e
    ELSE LET community == communities[k]
         IN  IF Len(community) < 2 THEN collusionLoop(e, communities, k + 1)
             ELSE LET result == collusionResult(e, community)
                      e1 == [e EXCEPT !.collusionDetectionCache = Append(@, result)]
                      e2 == IF result.isSuspicious
                            THEN markAll(generateThreatAlert(e1, "collusion_detected",
                                                             result.collusionScore, community),
                                         community, 1)
                            ELSE e1
                  IN  collusionLoop(e2, communities, k + 1)

\* updateCollusionDetection keeping the results of the earlier runs
updateCollusionDetectionMerging(e, outer, inner) ==
    collusionLoop(e, detectCommunities(e.adjacency, MinCoVotesForCollusion, outer, inner), 1)

updateCollusionDetection(e, outer, inner) ==
    LET e0 == [e EXCEPT !.collusionDetectionCache = <<>>]
        communities == detectCommunities(e.adjacency, MinCoVotesForCollusion, outer, inner)
    IN  collusionLoop(e0, communities, 1)

calculateAccountAgeScore(e, userId) ==
    LET voteCount == Len(Touch(e.userVoteHistory, userId, <<>>)[userId])
    IN  RMin(One, R(voteCount, 50))

calculateMajorityAgreementScore(e, userId) == R(1, 2)

\* the loop of calculateUserCredibility over the cached collusion groups
RECURSIVE maxCollusionScore(_, _, _, _)
maxCollusionScore(cache, userId, k, acc) ==
    IF k > Len(cache) THEN acc
    ELSE maxCollusionScore(cache, userId, k + 1,
             IF userId \in SeqToSet(cache[k].userGroup)
             THEN RMax(acc, cache[k].collusionScore)
             ELSE acc)

\* the fixed weights of the trust score
TrustWeights ==
    [accountAgeScore |-> R(20, 100), deviceDiversityScore |-> R(15, 100),
     majorityAgreementScore |-> R(15, 100), verificationScore |-> R(10, 100),
     botLikelihood |-> R(15, 100), collusionScore |-> R(15, 100),
     consistencyScore |-> R(5, 100), reportScore |-> R(5, 100)]

trustScoreOf(s) ==
    RAdd(RAdd(RAdd(RMul(TrustWeights.accountAgeScore, s.accountAgeScore),
                   RMul(TrustWeights.deviceDiversityScore, s.deviceDiversityScore)),
              RAdd(RMul(TrustWeights.majorityAgreementScore, s.majorityAgreementScore),
                   RMul(TrustWeights.verificationScore, s.verificationScore))),
         RAdd(RAdd(RMul(TrustWeights.botLikelihood, RSub(One, s.botLikelihood)),
                   RMul(TrustWeights.collusionScore, RSub(One, s.collusionScore))),
              RAdd(RMul(TrustWeights.consistencyScore, s.consistencyScore),
                   RMul(TrustWeights.reportScore, s.reportScore))))

\* calculateUserCredibility: [e |-> the state after the call, score |-> the result]
\* (b, the result of detectBot, is bound once)
calculateUserCredibility(e, userId) ==
    CHOOSE out \in {
    LET e1 == [b.e EXCEPT !.userVoteHistory = Touch(@, userId, <<>>),
                          !.userDevices = Touch(@, userId, {})]
        deviceCount == Cardinality(e1.userDevices[userId])
        parts == [userId |-> userId,
                  botLikelihood |-> b.result.botLikelihood,
                  accountAgeScore |-> calculateAccountAgeScore(b.e, userId),
                  deviceDiversityScore |-> IF deviceCount = 0 THEN R(5, 10)
                                           ELSE IF deviceCount = 1 THEN R(8, 10)
                                           ELSE IF deviceCount = 2 THEN R(6, 10)
                                           ELSE R(3, 10),
                  majorityAgreementScore |-> calculateMajorityAgreementScore(b.e, userId),
                  verificationScore |-> R(1, 2),
                  collusionScore |-> maxCollusionScore(e1.collusionDetectionCache,
                                                       userId, 1, Zero),
                  consistencyScore |-> R(1, 2),
                  reportScore |-> One]
        score == parts @@ [trustScore |-> trustScoreOf(parts)]
    IN  [e |-> [e1 EXCEPT !.userCredibilityScores =
                              [Touch(@, userId, score) EXCEPT ![userId] = score]],
         score |-> score]
    : b \in {detectBot(e, userId)} } : TRUE

\* the loop of calculateAllCredibilityScores over userVoteHistory
RECURSIVE credibilityLoop(_, _)
credibilityLoop(e, keys) ==
    IF keys = <<>> THEN e
    ELSE credibilityLoop(calculateUserCredibility(e, Head(keys)).e, Tail(keys))

\* calculateAllCredibilityScores without the collusion run at its start
calculateAllCredibilityScoresCached(e, outer, inner) ==
    credibilityLoop(e, KeysInOrder(e.userVoteHistory, outer))

calculateAllCredibilityScores(e, outer, inner) ==
    LET e1 == updateCollusionDetection(e, outer, inner)
    IN  credibilityLoop(e1, KeysInOrder(e1.userVoteHistory, outer))

\* getUserTrustScore: [e |-> the state after the call, value |-> the returned score]
getUserTrustScore(e, userId) ==
    IF userId \in DOMAIN e.userCredibilityScores
    THEN [e |-> e, value |-> e.userCredibilityScores[userId].trustScore]
    ELSE LET c == calculateUserCredibility(e, userId)
         IN  [e |-> c.e, value |-> c.score.trustScore]

\* the index of the first alert with this id, 0 if there is none
RECURSIVE firstAlert(_, _, _)
firstAlert(alerts, alertId, i) ==
    IF i > Len(alerts) THEN 0
    ELSE IF alerts[i].alertId = alertId THEN i
    ELSE firstAlert(alerts, alertId, i + 1)

\* resolveThreatAlert resolving every alert once one has the identifier
resolveThreatAlertAll(e, alertId) ==
    IF firstAlert(e.threatAlerts, alertId, 1) = 0 THEN e
    ELSE [e EXCEPT !.threatAlerts =
                      [i \in DOMAIN @ |-> [@[i] EXCEPT !.resolved = TRUE]]]

\* resolveThreatAlert flipping the flag instead of setting it
resolveThreatAlertFlip(e, alertId) ==
    LET i == firstAlert(e.threatAlerts, alertId, 1)
    IN  IF i = 0 THEN e
        ELSE [e EXCEPT !.threatAlerts[i].resolved = ~@]

resolveThreatAlert(e, alertId) ==
    LET i == firstAlert(e.threatAlerts, alertId, 1)
    IN  IF i = 0 THEN e
        ELSE [e EXCEPT !.threatAlerts[i].resolved = TRUE]

getThreatAlerts(e, unresolvedOnly) ==
    IF ~unresolvedOnly THEN e.threatAlerts
    ELSE SelectSeq(e.threatAlerts, LAMBDA a : ~a.resolved)

configureThresholds(e, velThreshold, deltaThreshold, collusionThresh, botThresh) ==
    [e EXCEPT !.velocityThreshold = velThreshold,
              !.deltaThresholdMs = deltaThreshold,
              !.collusionThreshold = collusionThresh,
              !.botLikelihoodThreshold = botThresh]

\* clearAll leaving the suspicious flags in place
clearAllButFlags(e) ==
    [e EXCEPT !.userVoteHistory = Empty,
              !.userVelocityWindows = Empty,
              !.userIPs = Empty,
              !.userDevices = Empty,
              !.ipToUsers = Empty,
              !.deviceToUsers = Empty,
              !.adjacency = Empty,
              !.proposalVoters = Empty,
              !.botDetectionCache = Empty,
              !.collusionDetectionCache = <<>>,
              !.userCredibilityScores = Empty,
              !.threatAlerts = <<>>]

clearAll(e) ==
    [e EXCEPT !.userVoteHistory = Empty,
              !.userVelocityWindows = Empty,
              !.userIPs = Empty,
              !.userDevices = Empty,
              !.ipToUsers = Empty,
              !.deviceToUsers = Empty,
              !.adjacency = Empty,
              !.proposalVoters = Empty,
              !.botDetectionCache = Empty,
              !.collusionDetectionCache = <<>>,
              !.userCredibilityScores = Empty,
              !.threatAlerts = <<>>,
              !.suspiciousUsers = Empty]

clearUser(e, userId) ==
    [e EXCEPT !.userVoteHistory = Erase(@, userId),
              !.userVelocityWindows = Erase(@, userId),
              !.userIPs = Erase(@, userId),
              !.userDevices = Erase(@, userId),
              !.botDetectionCache = Erase(@, userId),
              !.userCredibilityScores = Erase(@, userId),
              !.suspiciousUsers = Erase(@, userId)]

----------------------------------------------------------------------------
(* VotingSystem.  The handlers are operators on a record v of the members  *)
(* of the class and of the parts of its IntelligenceEngine that            *)
(* learnFromVote writes.  An identifier that the code draws at random      *)
(* (HashUtils::generateUserId, generateProposalId) is an input of the      *)
(* handler that draws it.  An audit log entry is the action it records;    *)
(* its random entry id, its wall-clock time and its hashes are left out.   *)
(* proposalRankings is the multiset of the Proposals in the priority       *)
(* queue: a function from a Proposal to the number of its entries.         *)

Vs == [users |-> users,
       proposals |-> proposals,
       proposalRankings |-> proposalRankings,
       auditLog |-> auditLog,
       userProfiles |-> userProfiles,
       userVotingPatterns |-> userVotingPatterns,
       proposalTrends |-> proposalTrends]

LogData(action, userId, proposalId) ==
    [action |-> action, user |-> userId, proposal |-> proposalId]

logAction(v, data) == [v EXCEPT !.auditLog = Append(@, data)]

\* VotingSystem(): the log holds the entry of the construction
NewVotingSystem ==
    [users |-> Empty,
     proposals |-> Empty,
     proposalRankings |-> Empty,
     auditLog |-> <<LogData("System initialized", "", "")>>,
     userProfiles |-> Empty,
     userVotingPatterns |-> Empty,
     proposalTrends |-> Empty]

hasVoted(user, proposalId) == proposalId \in SeqToSet(user.votedProposals)

addVotedProposal(user, proposalId) ==
    IF hasVoted(user, proposalId) THEN user
    ELSE [user EXCEPT !.votedProposals = Append(@, proposalId)]

hasVoter(proposal, voterId) == voterId \in SeqToSet(proposal.voters)

\* Proposal::addVote
proposalAddVote(proposal, voterId) ==
    IF hasVoter(proposal, voterId) THEN proposal
    ELSE [proposal EXCEPT !.voters = Append(@, voterId), !.voteCount = @ + 1]

\* proposalRankings.push
pushRanking(q, proposal) ==
    IF proposal \in DOMAIN q THEN [q EXCEPT ![proposal] = @ + 1]
    ELSE q @@ (proposal :> 1)

RECURSIVE pushAll(_, _)
pushAll(q, ps) ==
    IF ps = {} THEN q
    ELSE LET x == CHOOSE y \in ps : TRUE
         IN  pushAll(pushRanking(q, x), ps \ {x})

\* the queue is emptied and every Proposal of the map is pushed
updateRankings(v) ==
    [v EXCEPT !.proposalRankings =
                 pushAll(Empty, {v.proposals[id] : id \in DOMAIN v.proposals})]

userExists(v, userId) == userId \in DOMAIN v.users

\* registerUser, the User's constructor drawing userId
registerUser(v, userId) ==
    LET user == [userId |-> userId, votedProposals |-> <<>>]
    IN  logAction([v EXCEPT !.users = [Touch(@, userId, user) EXCEPT ![userId] = user]],
                  LogData("User registered", userId, ""))

\* createProposal, the Proposal's constructor drawing proposalId:
\* [v |-> the state after the call, thrown |-> whether it threw]
createProposal(v, proposalId, creatorId) ==
    IF ~userExists(v, creatorId) THEN [v |-> v, thrown |-> TRUE]
    ELSE LET proposal == [proposalId |-> proposalId,
                          creatorId |-> creatorId,
                          voteCount |-> 0,
                          voters |-> <<>>]
             v1 == [v EXCEPT !.proposals =
                                [Touch(@, proposalId, proposal) EXCEPT ![proposalId] = proposal],
                             !.proposalRankings = pushRanking(@, proposal)]
         IN  [v |-> logAction(v1, LogData("Proposal created", creatorId, proposalId)),
              thrown |-> FALSE]

\* PredictiveAnalytics::updateVotingTrend
updateVotingTrend(trends, proposalId, currentVotes) ==
    LET t0 == Touch(trends, proposalId, [hourlyVotes |-> <<>>, momentum |-> 0])
        old == t0[proposalId]
        votes == Append(old.hourlyVotes, currentVotes)
        trend == [hourlyVotes |-> IF Len(votes) > 24 THEN Tail(votes) ELSE votes,
                  momentum |-> IF old.hourlyVotes = <<>> THEN old.momentum
                               ELSE currentVotes - old.hourlyVotes[Len(old.hourlyVotes)]]
    IN  [t0 EXCEPT ![proposalId] = trend]

\* IntelligenceEngine::learnFromVote: the profile takes the user's voted
\* list, the anomaly detector records the vote, the trend of the proposal
\* takes its vote count
learnFromVote(v, userId, proposalId) ==
    LET v1 == IF userExists(v, userId)
              THEN [v EXCEPT !.userProfiles =
                                [Touch(@, userId, <<>>) EXCEPT
                                    ![userId] = v.users[userId].votedProposals]]
              ELSE v
        v2 == [v1 EXCEPT !.userVotingPatterns =
                            [Touch(@, userId, <<>>) EXCEPT ![userId] = Append(@, proposalId)]]
    IN  IF proposalId \in DOMAIN v.proposals
        THEN [v2 EXCEPT !.proposalTrends =
                           updateVotingTrend(@, proposalId, v.proposals[proposalId].voteCount)]
        ELSE v2

\* castVote: [v |-> the state after the call, result |-> the returned bool]
castVote(v, userId, proposalId) ==
    IF userId \notin DOMAIN v.users \/ proposalId \notin DOMAIN v.proposals
    THEN [v |-> v, result |-> FALSE]
    ELSE IF hasVoted(v.users[userId], proposalId)
    THEN [v |-> v, result |-> FALSE]
    ELSE LET v1 == [v EXCEPT !.users[userId] = addVotedProposal(@, proposalId),
                             !.proposals[proposalId] = proposalAddVote(@, userId)]
             v2 == logAction(updateRankings(v1), LogData("Vote cast", userId, proposalId))
         IN  [v |-> learnFromVote(v2, userId, proposalId), result |-> TRUE]

SetVs(v) ==
    /\ users' = v.users
    /\ proposals' = v.proposals
    /\ proposalRankings' = v.proposalRankings
    /\ auditLog' = v.auditLog
    /\ userProfiles' = v.userProfiles
    /\ userVotingPatterns' = v.userVotingPatterns
    /\ proposalTrends' = v.proposalTrends

\* a newly constructed VotingSystem
InitVoting ==
    /\ users = NewVotingSystem.users
    /\ proposals = NewVotingSystem.proposals
    /\ proposalRankings = NewVotingSystem.proposalRankings
    /\ auditLog = NewVotingSystem.auditLog
    /\ userProfiles = NewVotingSystem.userProfiles
    /\ userVotingPatterns = NewVotingSystem.userVotingPatterns
    /\ proposalTrends = NewVotingSystem.proposalTrends

----------------------------------------------------------------------------
(* StreamProcessor.  A handler is a callback of the caller; the model      *)
(* keeps which event types have one and the events the handlers were       *)
(* called with.                                                            *)

\* the event types consume routes to a handler
EventTypes == {"vote", "proposal", "user_action"}

StreamEvent(eventType, payload) == [eventType |-> eventType, payload |-> payload]

\* produce refusing only a queue that is over its capacity
produceOverfull(queue, maxSize, event) ==
    IF Len(queue) > maxSize THEN [queue |-> queue, result |-> FALSE]
    ELSE [queue |-> Append(queue, event), result |-> TRUE]

\* produce: [queue |-> the queue after the call, result |-> the returned bool]
produce(queue, maxSize, event) ==
    IF Len(queue) >= maxSize THEN [queue |-> queue, result |-> FALSE]
    ELSE [queue |-> Append(queue, event), result |-> TRUE]

\* the loop of consume: the front event is popped and passed to the handler
\* of its type if there is one
RECURSIVE consumeLoop(_, _, _, _, _)
consumeLoop(queue, registered, passed, processed, maxEvents) ==
    IF queue = <<>> \/ ~(processed < maxEvents)
    THEN [queue |-> queue, delivered |-> passed, processed |-> processed]
    ELSE consumeLoop(Tail(queue), registered,
                     IF Head(queue).eventType \in EventTypes
                        /\ Head(queue).eventType \in registered
                     THEN Append(passed, Head(queue))
                     ELSE passed,
                     processed + 1, maxEvents)

\* consume: processed is the returned int
consume(queue, running, registered, passed, maxEvents) ==
    IF ~running THEN [queue |-> queue, delivered |-> passed, processed |-> 0]
    ELSE consumeLoop(queue, registered, passed, 0, maxEvents)

\* StreamProcessor(maxSize): an empty queue, not running, no handler
InitStream ==
    /\ eventQueue = <<>>
    /\ isRunning = FALSE
    /\ handlers = {}
    /\ accepted = <<>>
    /\ delivered = <<>>

----------------------------------------------------------------------------
(* The state machine *)

SetEng(e) ==
    /\ userVoteHistory' = e.userVoteHistory
    /\ userVelocityWindows' = e.userVelocityWindows
    /\ userIPs' = e.userIPs
    /\ userDevices' = e.userDevices
    /\ ipToUsers' = e.ipToUsers
    /\ deviceToUsers' = e.deviceToUsers
    /\ adjacency' = e.adjacency
    /\ proposalVoters' = e.proposalVoters
    /\ botDetectionCache' = e.botDetectionCache
    /\ collusionDetectionCache' = e.collusionDetectionCache
    /\ userCredibilityScores' = e.userCredibilityScores
    /\ threatAlerts' = e.threatAlerts
    /\ suspiciousUsers' = e.suspiciousUsers
    /\ velocityThreshold' = e.velocityThreshold
    /\ deltaThresholdMs' = e.deltaThresholdMs
    /\ collusionThreshold' = e.collusionThreshold
    /\ botLikelihoodThreshold' = e.botLikelihoodThreshold
    /\ alertCounter' = e.alertCounter

\* the users some member of the engine mentions
KnownUsers ==
    DOMAIN userVoteHistory \cup DOMAIN userVelocityWindows \cup DOMAIN userIPs
    \cup DOMAIN userDevices \cup DOMAIN botDetectionCache
    \cup DOMAIN userCredibilityScores \cup DOMAIN suspiciousUsers
    \cup DOMAIN adjacency
    \cup UNION {proposalVoters[p] : p \in DOMAIN proposalVoters}
    \cup UNION {SeqToSet(ipToUsers[i]) : i \in DOMAIN ipToUsers}
    \cup UNION {SeqToSet(deviceToUsers[d]) : d \in DOMAIN deviceToUsers}
    \cup UNION {SeqToSet(collusionDetectionCache[k].userGroup) :
                    k \in DOMAIN collusionDetectionCache}

Obs(op, userId, value) == [op |-> op, user |-> userId, value |-> value]

NoCall == Obs("", "", Zero)

\* no thread is inside addVote
NoVote == [active |-> FALSE, userId |-> "", proposalId |-> "", others |-> {},
           otherUser |-> ""]

\* the thresholds offered to configureThresholds:
\* <<velocity, gap ms, collusion score, bot likelihood>>
ThresholdConfigs ==
    { <<RInt(30), RInt(200), R(7, 10), R(7, 10)>>,
      <<RInt(1), RInt(50), R(1, 2), R(7, 10)>>,
      <<R(-1, 100), RInt(200), R(7, 10), R(3, 10)>> }

\* the engine state reached from e by these recordVoteEvent calls, in their
\* order (the first half of the script, then the second)
RECURSIVE replay(_, _)
replay(e, script) ==
    IF script = <<>> THEN e
    ELSE IF Len(script) = 1
    THEN recordVoteEvent(e, script[1][1], script[1][2], script[1][3],
                         script[1][4], script[1][5])
    ELSE CHOOSE r \in { replay(half, SubSeq(script, (Len(script) \div 2) + 1, Len(script))) :
                            half \in {replay(e, SubSeq(script, 1, Len(script) \div 2))} } : TRUE

\* u1 and u2 each vote once on each of the seed proposals, one vote every
\* 100 s, no ip or device hash given
ColludedScript ==
    [k \in 1..(2 * Len(SeedProposals)) |->
        <<IF k % 2 = 1 THEN "u1" ELSE "u2",
          SeedProposals[(k + 1) \div 2],
          ((k - 1) * 100000 - 2000000) * TicksPerMs, "", "">>]

ColludedEngine == replay(NewEngine(RInt(30), RInt(200), 0), ColludedScript)

IsEng(e) ==
    /\ userVoteHistory = e.userVoteHistory
    /\ userVelocityWindows = e.userVelocityWindows
    /\ userIPs = e.userIPs
    /\ userDevices = e.userDevices
    /\ ipToUsers = e.ipToUsers
    /\ deviceToUsers = e.deviceToUsers
    /\ adjacency = e.adjacency
    /\ proposalVoters = e.proposalVoters
    /\ botDetectionCache = e.botDetectionCache
    /\ collusionDetectionCache = e.collusionDetectionCache
    /\ userCredibilityScores = e.userCredibilityScores
    /\ threatAlerts = e.threatAlerts
    /\ suspiciousUsers = e.suspiciousUsers
    /\ velocityThreshold = e.velocityThreshold
    /\ deltaThresholdMs = e.deltaThresholdMs
    /\ collusionThreshold = e.collusionThreshold
    /\ botLikelihoodThreshold = e.botLikelihoodThreshold
    /\ alertCounter = e.alertCounter

InitWindow == timestamps = <<>> /\ inserted = -1

\* a default-constructed engine, no alert generated yet
InitEngine == IsEng(NewEngine(RInt(30), RInt(200), 0))

\* a default-constructed engine, or one that has recorded the votes of
\* ColludedScript
InitEngines == \E e \in {NewEngine(RInt(30), RInt(200), 0), ColludedEngine} : IsEng(e)

InitRest ==
    last = NoCall /\ calls = 0 /\ InitVoting /\ InitStream /\ voteInFlight = NoVote

\* a new window, a new graph, a new engine
Init0 == InitWindow /\ InitEngine /\ InitRest

(* the engine's calls; max bounds the number of calls of a behaviour *)

\* one call on the engine: e is the engine after the call, value what it returned
Step(e, op, u, value) ==
    \E after \in {e} :
        /\ SetEng(after)
        /\ last' = Obs(op, u, value)
        /\ calls' = calls + 1
        /\ UNCHANGED <<windowVars, votingVars, streamVars, threadVars>>

RecordVoteEvent(max, u, p, t, ip, dev) ==
    /\ calls < max
    /\ Step(recordVoteEvent(Eng, u, p, t, ip, dev), "recordVoteEvent", u, Zero)

DetectBot(max, u) ==
    /\ calls < max
    /\ \E b \in {detectBot(Eng, u)} : Step(b.e, "detectBot", u, b.result.botLikelihood)

DetectCollusion(max, outer, inner) ==
    /\ calls < max
    /\ Step(updateCollusionDetection(Eng, outer, inner), "detectCollusion", "", Zero)

CalculateUserCredibility(max, u) ==
    /\ calls < max
    /\ \E c \in {calculateUserCredibility(Eng, u)} :
           Step(c.e, "calculateUserCredibility", u, c.score.trustScore)

CalculateAllCredibilityScores(max, outer, inner) ==
    /\ calls < max
    /\ Step(calculateAllCredibilityScores(Eng, outer, inner),
            "calculateAllCredibilityScores", "", Zero)

GetUserTrustScore(max, u) ==
    /\ calls < max
    /\ \E g \in {getUserTrustScore(Eng, u)} : Step(g.e, "getUserTrustScore", u, g.value)

DetectAllBots(max, ord, tie) ==
    /\ calls < max
    /\ \E r \in {detectAllBots(Eng, ord, tie)} : Step(r.e, "detectAllBots", "", r.results)

ResolveThreatAlert(max, alertId) ==
    /\ calls < max
    /\ Step(resolveThreatAlert(Eng, alertId), "resolveThreatAlert", "", Zero)

ConfigureThresholds(max, c) ==
    /\ calls < max
    /\ Step(configureThresholds(Eng, c[1], c[2], c[3], c[4]),
            "configureThresholds", "", Zero)

ClearAll(max) ==
    /\ calls < max
    /\ Step(clearAll(Eng), "clearAll", "", Zero)

ClearUser(max, u) ==
    /\ calls < max
    /\ Step(clearUser(Eng, u), "clearUser", u, Zero)

(* the calls on the VotingSystem *)

\* one call on the VotingSystem: v is the system after the call
VotingStep(v, op, u, value) ==
    \E after \in {v} :
        /\ SetVs(after)
        /\ last' = Obs(op, u, value)
        /\ calls' = calls + 1
        /\ UNCHANGED <<windowVars, graphVars, engineVars, streamVars, threadVars>>

RegisterUser(max, userId) ==
    /\ calls < max
    /\ VotingStep(registerUser(Vs, userId), "registerUser", userId, userId)

CreateProposal(max, proposalId, creatorId) ==
    /\ calls < max
    /\ \E c \in {createProposal(Vs, proposalId, creatorId)} :
           VotingStep(c.v, "createProposal", creatorId,
                      IF c.thrown THEN "" ELSE proposalId)

CastVote(max, userId, proposalId) ==
    /\ calls < max
    /\ \E c \in {castVote(Vs, userId, proposalId)} :
           VotingStep(c.v, "castVote", userId,
                      [proposal |-> proposalId, result |-> c.result])

(* the calls on the StreamProcessor *)

StreamStep(op, value) ==
    /\ last' = Obs(op, "", value)
    /\ calls' = calls + 1
    /\ UNCHANGED <<windowVars, graphVars, engineVars, votingVars, threadVars>>

\* produce of an event whose payload is the number of the call
Produce(eventType) ==
    /\ calls < MaxStreamCalls
    /\ \E r \in {produce(eventQueue, MaxQueueSize, StreamEvent(eventType, calls + 1))} :
          /\ eventQueue' = r.queue
          /\ accepted' = IF r.result
                          THEN Append(accepted, StreamEvent(eventType, calls + 1))
                          ELSE accepted
          /\ StreamStep("produce", r.result)
    /\ UNCHANGED <<isRunning, handlers, delivered>>

Consume(maxEvents) ==
    /\ calls < MaxStreamCalls
    /\ \E r \in {consume(eventQueue, isRunning, handlers, delivered, maxEvents)} :
          /\ eventQueue' = r.queue
          /\ delivered' = r.delivered
          /\ StreamStep("consume", [maxEvents |-> maxEvents, processed |-> r.processed])
    /\ UNCHANGED <<isRunning, handlers, accepted>>

\* setVoteHandler, setProposalHandler, setUserActionHandler
SetHandler(eventType) ==
    /\ calls < MaxStreamCalls
    /\ handlers' = handlers \cup {eventType}
    /\ StreamStep("setHandler", eventType)
    /\ UNCHANGED <<eventQueue, isRunning, accepted, delivered>>

Start ==
    /\ calls < MaxStreamCalls
    /\ isRunning' = TRUE
    /\ StreamStep("start", TRUE)
    /\ UNCHANGED <<eventQueue, handlers, accepted, delivered>>

Stop ==
    /\ calls < MaxStreamCalls
    /\ isRunning' = FALSE
    /\ StreamStep("stop", FALSE)
    /\ UNCHANGED <<eventQueue, handlers, accepted, delivered>>

(* the calls on a StreamProcessor that is drained by a consume loop; the   *)
(* last call is not recorded                                               *)

\* what a call leaves alone besides the StreamProcessor
StreamFrame ==
    UNCHANGED <<last, windowVars, graphVars, engineVars, votingVars, threadVars>>

\* produce of an event whose payload is the number of the call
Producing(eventType) ==
    /\ calls < MaxStreamCalls
    /\ \E r \in {produce(eventQueue, MaxQueueSize, StreamEvent(eventType, calls + 1))} :
          /\ eventQueue' = r.queue
          /\ accepted' = IF r.result
                          THEN Append(accepted, StreamEvent(eventType, calls + 1))
                          ELSE accepted
    /\ calls' = calls + 1
    /\ UNCHANGED <<isRunning, handlers, delivered>>
    /\ StreamFrame

\* setVoteHandler, setProposalHandler, setUserActionHandler
Registering(eventType) ==
    /\ calls < MaxStreamCalls
    /\ handlers' = handlers \cup {eventType}
    /\ calls' = calls + 1
    /\ UNCHANGED <<eventQueue, isRunning, accepted, delivered>>
    /\ StreamFrame

\* start on a processor that is not running
Starting ==
    /\ ~isRunning
    /\ isRunning' = TRUE
    /\ UNCHANGED <<eventQueue, handlers, accepted, delivered, calls>>
    /\ StreamFrame

\* one more consume call of the loop that drains a running processor; a call
\* on an empty queue changes nothing and is left out
Draining(maxEvents) ==
    /\ isRunning /\ eventQueue # <<>>
    /\ \E r \in {consume(eventQueue, isRunning, handlers, delivered, maxEvents)} :
          /\ eventQueue' = r.queue
          /\ delivered' = r.delivered
    /\ UNCHANGED <<isRunning, handlers, accepted, calls>>
    /\ StreamFrame

(* the calls on a stand-alone SlidingWindow and a stand-alone CoVotingGraph *)

AddEvent(t) ==
    /\ calls < MaxWindowEvents
    /\ timestamps' = addEvent(timestamps, t)
    /\ inserted' = t
    /\ last' = Obs("addEvent", "", Zero)
    /\ calls' = calls + 1
    /\ UNCHANGED <<graphVars, engineVars, votingVars, streamVars, threadVars>>

\* addEvent with a time point not before the one of the call before
AddEventInOrder(t) == inserted <= t /\ AddEvent(t)

AddVoteBy(max, u, p) ==
    /\ calls < max
    /\ LET g == addVote(Graph, u, p)
       IN  adjacency' = g.adjacency /\ proposalVoters' = g.proposalVoters
    /\ last' = Obs("addVote", u, Zero)
    /\ calls' = calls + 1
    /\ UNCHANGED <<votingVars, streamVars, threadVars>>
    /\ UNCHANGED <<windowVars, userVoteHistory, userVelocityWindows, userIPs,
                   userDevices, ipToUsers, deviceToUsers, botDetectionCache,
                   collusionDetectionCache, userCredibilityScores, threatAlerts,
                   suspiciousUsers, velocityThreshold, deltaThresholdMs,
                   collusionThreshold, botLikelihoodThreshold, alertCounter>>

AddVote(u, p) == AddVoteBy(MaxVotes, u, p)

GraphClear ==
    /\ calls < MaxVotes
    /\ adjacency' = Empty /\ proposalVoters' = Empty
    /\ last' = Obs("clear", "", Zero)
    /\ calls' = calls + 1
    /\ UNCHANGED <<votingVars, streamVars, threadVars>>
    /\ UNCHANGED <<windowVars, userVoteHistory, userVelocityWindows, userIPs,
                   userDevices, ipToUsers, deviceToUsers, botDetectionCache,
                   collusionDetectionCache, userCredibilityScores, threatAlerts,
                   suspiciousUsers, velocityThreshold, deltaThresholdMs,
                   collusionThreshold, botLikelihoodThreshold, alertCounter>>

(* CoVotingGraph::addVote statement by statement, for a thread that runs   *)
(* next to a reader of the graph.  The class holds no lock, so a reader    *)
(* may run between any two statements of the writer.                       *)

\* proposalVoters[proposalId].insert(userId), and the loop is entered
AddVoteInsert(u, p) ==
    /\ calls < MaxRaceSteps
    /\ ~voteInFlight.active
    /\ LET pv0 == Touch(proposalVoters, p, {})
           pv == [pv0 EXCEPT ![p] = @ \cup {u}]
       IN  /\ proposalVoters' = pv
           /\ voteInFlight' = [active |-> pv[p] \ {u} # {}, userId |-> u,
                               proposalId |-> p, others |-> pv[p] \ {u},
                               otherUser |-> ""]
    /\ last' = Obs("addVote", u, Zero)
    /\ calls' = calls + 1
    /\ UNCHANGED <<adjacency, windowVars, engineVars, votingVars, streamVars>>

\* adjacency[userId][otherUser]++ for the next voter of the loop
AddVoteIncrement ==
    /\ calls < MaxRaceSteps
    /\ voteInFlight.active /\ voteInFlight.otherUser = ""
    /\ \E otherUser \in voteInFlight.others :
          LET userId == voteInFlight.userId
              a1 == Touch(adjacency, userId, Empty)
              a2 == [a1 EXCEPT ![userId] = Touch(@, otherUser, 0)]
          IN  /\ adjacency' = [a2 EXCEPT ![userId][otherUser] = @ + 1]
              /\ voteInFlight' = [voteInFlight EXCEPT !.otherUser = otherUser]
              /\ last' = Obs("addVote", userId, Zero)
    /\ calls' = calls + 1
    /\ UNCHANGED <<proposalVoters, windowVars, engineVars, votingVars, streamVars>>

\* adjacency[otherUser][userId]++, and the loop goes on or ends
AddVoteIncrementSymmetric ==
    /\ calls < MaxRaceSteps
    /\ voteInFlight.active /\ voteInFlight.otherUser # ""
    /\ LET userId == voteInFlight.userId
           otherUser == voteInFlight.otherUser
           a4 == Touch(adjacency, otherUser, Empty)
           a5 == [a4 EXCEPT ![otherUser] = Touch(@, userId, 0)]
           rest == voteInFlight.others \ {otherUser}
       IN  /\ adjacency' = [a5 EXCEPT ![otherUser][userId] = @ + 1]
           /\ voteInFlight' = [voteInFlight EXCEPT !.active = rest # {},
                                                   !.others = rest,
                                                   !.otherUser = ""]
           /\ last' = Obs("addVote", userId, Zero)
    /\ calls' = calls + 1
    /\ UNCHANGED <<proposalVoters, windowVars, engineVars, votingVars, streamVars>>

\* detectCommunities called by another thread: it reads the graph as it is
DetectCommunitiesConcurrently(minCoVotes, ord) ==
    /\ calls < MaxRaceSteps
    /\ last' = Obs("detectCommunities", "",
                   detectCommunities(adjacency, minCoVotes, ord, ord))
    /\ calls' = calls + 1
    /\ UNCHANGED <<graphVars, windowVars, engineVars, votingVars, streamVars, threadVars>>

(* SpecWindow: addEvent calls, in any order of time points, on one window *)

NextWindow == \E t \in WindowTimes : AddEvent(t)

SpecWindow == Init0 /\ [][NextWindow]_vars

(* SpecOrderedWindow: addEvent calls on one window, their time points in  *)
(* non-decreasing order                                                    *)

NextOrderedWindow == \E t \in WindowTimes : AddEventInOrder(t)

SpecOrderedWindow == Init0 /\ [][NextOrderedWindow]_vars

(* SpecGraph: addVote and clear calls on one graph *)

NextGraph ==
    \/ \E u \in Users, p \in Proposals : AddVote(u, p)
    \/ GraphClear

SpecGraph == Init0 /\ [][NextGraph]_vars

(* Spec: ingestion, collusion runs, alert resolution, configuration and   *)
(* the two resets of an engine; every event carries an ip and a device    *)
(* hash                                                                    *)

Init == InitWindow /\ InitEngines /\ InitRest

Next ==
    \/ \E u \in EngineUsers, p \in EngineProposals, t \in EngineTimes :
          RecordVoteEvent(MaxCalls, u, p, t, "ip1", "d1")
    \/ \E ord \in Perms(EngineUsers) : DetectCollusion(MaxCalls, ord, ord)
    \/ \E alertId \in 1..(alertCounter + 1) : ResolveThreatAlert(MaxCalls, alertId)
    \/ \E c \in ThresholdConfigs : ConfigureThresholds(MaxCalls, c)
    \/ ClearAll(MaxCalls)
    \/ \E u \in EngineUsers : ClearUser(MaxCalls, u)

Spec == Init /\ [][Next]_vars

(* SpecScores: ingestion for one user, the bot and credibility queries    *)
(* about that user and about a user who never voted, and configuration    *)

NextScores ==
    \/ \E u \in Voters, p \in EngineProposals, t \in EngineTimes, id \in Identities :
          RecordVoteEvent(MaxScoreCalls, u, p, t, id[1], id[2])
    \/ \E u \in EngineUsers : DetectBot(MaxScoreCalls, u)
    \/ \E u \in EngineUsers : CalculateUserCredibility(MaxScoreCalls, u)
    \/ \E ord \in Perms(EngineUsers) : CalculateAllCredibilityScores(MaxScoreCalls, ord, ord)
    \/ \E u \in EngineUsers : GetUserTrustScore(MaxScoreCalls, u)
    \/ \E c \in ThresholdConfigs : ConfigureThresholds(MaxScoreCalls, c)

SpecScores == Init0 /\ [][NextScores]_vars

(* SpecCollusion: collusion runs on engines that have recorded the votes   *)
(* of whole groups, followed by further votes, runs and configuration      *)

\* the proposals the three users of the demo's collusion group vote on
TrioProposals == 10
\* the proposals each pair of ChainScript votes on
ChainProposals == 21

\* voters vote in turn on the n proposals prefix0, prefix1, ...; the votes
\* on one proposal carry the same time point, stepMs after the one before
VoteScript(voters, prefix, n, t0, stepMs, ipHash) ==
    [k \in 1..(n * Len(voters)) |->
        <<voters[((k - 1) % Len(voters)) + 1],
          prefix \o ToString((k - 1) \div Len(voters)),
          (t0 + ((k - 1) \div Len(voters)) * stepMs) * TicksPerMs,
          ipHash,
          IF ipHash = "" THEN "" ELSE "DEV_" \o voters[((k - 1) % Len(voters)) + 1]>>]

\* the collusion group of the demo: three users vote on the same proposals,
\* 5 s from one proposal to the next, one ip hash, one device hash each
TrioScript == VoteScript(<<"u1", "u2", "u3">>, "PROP_COL_", TrioProposals, -1000000, 5000, "IP_COL")

TrioEngine == replay(NewEngine(RInt(30), RInt(200), 0), TrioScript)

\* u1 and u2 vote on the same proposals, then u2 and u3 on other ones;
\* u1 and u3 share none
ChainScript ==
    VoteScript(<<"u1", "u2">>, "c", ChainProposals, -20000000, 100000, "")
    \o VoteScript(<<"u2", "u3">>, "d", ChainProposals, -10000000, 100000, "")

ChainEngine == replay(NewEngine(RInt(30), RInt(200), 0), ChainScript)

InitCollusion ==
    /\ InitWindow
    /\ \E e \in {ColludedEngine, TrioEngine, ChainEngine} : IsEng(e)
    /\ InitRest

NextCollusion ==
    \/ \E u \in Users, p \in EngineProposals, t \in EngineTimes :
          RecordVoteEvent(MaxCollusionCalls, u, p, t, "", "")
    \/ \E ord \in Perms(Users) : DetectCollusion(MaxCollusionCalls, ord, ord)
    \/ \E c \in ThresholdConfigs : ConfigureThresholds(MaxCollusionCalls, c)

SpecCollusion == InitCollusion /\ [][NextCollusion]_vars

(* SpecAlerts: the life of the alerts: an engine that is new or has        *)
(* recorded the votes of the demo's collusion group raises alerts by       *)
(* ingestion and by collusion runs, resolves them and is reset             *)

\* the iteration orders of the maps in the collusion runs of SpecAlerts
AlertOrders == { <<"u1", "u2", "u3">>, <<"u3", "u2", "u1">> }

InitAlerts ==
    /\ InitWindow
    /\ \E e \in {NewEngine(RInt(30), RInt(200), 0), TrioEngine} : IsEng(e)
    /\ InitRest

NextAlerts ==
    \/ \E u \in Voters, p \in EngineProposals, t \in EngineTimes :
          RecordVoteEvent(MaxAlertCalls, u, p, t, "ip1", "d1")
    \/ \E ord \in AlertOrders : DetectCollusion(MaxAlertCalls, ord, ord)
    \/ \E alertId \in 1..(alertCounter + 1) : ResolveThreatAlert(MaxAlertCalls, alertId)
    \/ \E c \in ThresholdConfigs : ConfigureThresholds(MaxAlertCalls, c)
    \/ ClearAll(MaxAlertCalls)
    \/ \E u \in Voters : ClearUser(MaxAlertCalls, u)

SpecAlerts == InitAlerts /\ [][NextAlerts]_vars

(* SpecCredibility: bulk recomputations of the credibility scores on an   *)
(* engine that is new or has recorded the votes of the demo's collusion   *)
(* group, between further votes, trust score queries and configuration    *)

InitCredibility ==
    /\ InitWindow
    /\ \E e \in {NewEngine(RInt(30), RInt(200), 0), TrioEngine} : IsEng(e)
    /\ InitRest

NextCredibility ==
    \/ \E u \in EngineUsers, p \in EngineProposals, t \in EngineTimes :
          RecordVoteEvent(MaxCredibilityCalls, u, p, t, "ip1", "d1")
    \/ \E ord \in AlertOrders :
          CalculateAllCredibilityScores(MaxCredibilityCalls, ord, ord)
    \/ \E u \in EngineUsers : GetUserTrustScore(MaxCredibilityCalls, u)
    \/ \E c \in ThresholdConfigs : ConfigureThresholds(MaxCredibilityCalls, c)

SpecCredibility == InitCredibility /\ [][NextCredibility]_vars

(* SpecBots: the bot results of two users: an engine that is new or has    *)
(* recorded the votes of the demo's bot user ingests further votes, lists  *)
(* the suspicious users and is configured                                  *)

\* the events of the demo's bot user
BotEvents == 50

\* the bot user of the demo: one vote every 100 ms, each on another
\* proposal, one ip hash, one device hash
BotScript == VoteScript(<<"u1">>, "PROP_", BotEvents, 0, 100, "IP_999")

BotEngine == replay(NewEngine(RInt(30), RInt(200), 0), BotScript)

\* the same votes with no ip hash and no device hash given
BareBotScript == VoteScript(<<"u1">>, "PROP_", BotEvents, 0, 100, "")

BareBotEngine == replay(NewEngine(RInt(30), RInt(200), 0), BareBotScript)

InitBots ==
    /\ InitWindow
    /\ \E e \in {NewEngine(RInt(30), RInt(200), 0), BotEngine, BareBotEngine} : IsEng(e)
    /\ InitRest

NextBots ==
    \/ \E u \in EngineUsers, p \in EngineProposals, t \in EngineTimes, id \in Identities :
          RecordVoteEvent(MaxBotCalls, u, p, t, id[1], id[2])
    \/ \E ord \in Perms(EngineUsers), tie \in Perms(EngineUsers) :
          DetectAllBots(MaxBotCalls, ord, tie)
    \/ \E c \in ThresholdConfigs : ConfigureThresholds(MaxBotCalls, c)

SpecBots == InitBots /\ [][NextBots]_vars

(* SpecVoting: registrations, proposals and votes on one VotingSystem;    *)
(* the identifiers are drawn from UserIds and ProposalIds                  *)

NextVoting ==
    \/ \E u \in UserIds : RegisterUser(MaxVotingCalls, u)
    \/ \E p \in ProposalIds, u \in UserIds : CreateProposal(MaxVotingCalls, p, u)
    \/ \E u \in UserIds, p \in ProposalIds : CastVote(MaxVotingCalls, u, p)

SpecVoting == Init0 /\ [][NextVoting]_vars

(* SpecStream: events of the three types are produced and consumed in    *)
(* batches while handlers are registered and the processor is started and *)
(* stopped                                                                 *)

NextStream ==
    \/ \E eventType \in EventTypes : Produce(eventType)
    \/ \E maxEvents \in 0..MaxBatch : Consume(maxEvents)
    \/ \E eventType \in EventTypes : SetHandler(eventType)
    \/ Start
    \/ Stop

SpecStream == Init0 /\ [][NextStream]_vars

(* SpecStreamLive: events are produced and handlers registered while the  *)
(* processor, once started, is drained by consume calls that go on as long *)
(* as the queue holds events (the consume loop of the demo's caller)       *)

NextStreamLive ==
    \/ \E eventType \in EventTypes : Producing(eventType)
    \/ \E eventType \in EventTypes : Registering(eventType)
    \/ Starting
    \/ \E maxEvents \in 1..MaxBatch : Draining(maxEvents)

SpecStreamLive ==
    /\ Init0
    /\ [][NextStreamLive]_vars
    /\ WF_vars(Starting)
    /\ WF_vars(\E maxEvents \in 1..MaxBatch : Draining(maxEvents))

(* SpecCommunities: addVote calls of four users on one graph, enough for  *)
(* two communities side by side and for a chain of three users             *)

NextCommunities == \E u \in CommunityUsers, p \in Proposals : AddVoteBy(MaxCommunityVotes, u, p)

SpecCommunities == Init0 /\ [][NextCommunities]_vars

(* SpecRace: one thread records votes on the graph, statement by          *)
(* statement, while another calls detectCommunities                        *)

NextRace ==
    \/ \E u \in Users, p \in Proposals : AddVoteInsert(u, p)
    \/ AddVoteIncrement
    \/ AddVoteIncrementSymmetric
    \/ \E ord \in Perms(Users) : DetectCommunitiesConcurrently(1, ord)

SpecRace == Init0 /\ [][NextRace]_vars

----------------------------------------------------------------------------
(* The properties *)

\* C1 (SpecGraph): an addVote(u, p) for a user u who is already a recorded
\* voter of p leaves every edge weight getCoVoteCount(a, b) unchanged.
IdempotentCoVote ==
    [][\A u \in Users, p \in Proposals :
          (AddVote(u, p) /\ p \in DOMAIN proposalVoters /\ u \in proposalVoters[p])
          => \A a, b \in Users :
                getCoVoteCount(adjacency', a, b) = getCoVoteCount(adjacency, a, b)]_vars

\* the number of proposals whose recorded voter set holds both u and v
SharedProposals(u, v) ==
    Cardinality({p \in DOMAIN proposalVoters : {u, v} \subseteq proposalVoters[p]})

\* C2 (SpecGraph): after any sequence of addVote calls, for all distinct
\* users u and v, getCoVoteCount(u, v) is the number of distinct proposals
\* whose recorded voter set holds both.
CoVoteCountIsSharedProposals ==
    \A u, v \in Users :
        u # v => getCoVoteCount(adjacency, u, v) = SharedProposals(u, v)

\* C3 (SpecWindow): right after addEvent(t), whatever the order of the time
\* points inserted so far, the window holds no time point older than
\* t - windowDuration.
WindowCorrectness ==
    inserted # -1 =>
        \A i \in DOMAIN timestamps : timestamps[i] >= inserted - WindowSeconds * 1000 * TicksPerMs

\* C4 (Spec): in every state reached by recordVoteEvent, detectCollusion,
\* resolveThreatAlert, configureThresholds, clearAll and clearUser calls,
\* getCoVoteCount(u, v) = getCoVoteCount(v, u) for all users u, v.
GraphSymmetry ==
    \A u, v \in Users :
        getCoVoteCount(adjacency, u, v) = getCoVoteCount(adjacency, v, u)

\* C4 witness: a recordVoteEvent of a user on a proposal another user voted
\* on too, with an edge of weight 2 or more between the two.
GraphSymmetryWitness ==
    /\ last.op = "recordVoteEvent"
    /\ \E p \in EngineProposals, v \in Users :
          /\ p \in DOMAIN proposalVoters
          /\ v # last.user
          /\ {last.user, v} \subseteq proposalVoters[p]
          /\ getCoVoteCount(adjacency, last.user, v) >= 2

\* the communities of detectCommunities as sets of users
CommunitySets(minCoVotes, outer, inner) ==
    SeqToSet([k \in DOMAIN detectCommunities(adjacency, minCoVotes, outer, inner) |->
                 SeqToSet(detectCommunities(adjacency, minCoVotes, outer, inner)[k])])

\* C8 (SpecGraph): on the same graph (so with the same iteration orders), for
\* thresholds m1 <= m2 every community of detectCommunities(m2) is a subset
\* of some community of detectCommunities(m1).
CommunityThresholdMonotone ==
    \A m1, m2 \in 0..MaxMinCoVotes :
        m1 <= m2 =>
            \A outer, inner \in Perms(Users) :
                \A c2 \in CommunitySets(m2, outer, inner) :
                    \E c1 \in CommunitySets(m1, outer, inner) : c2 \subseteq c1

\* C8 witness: a graph built without a repeated vote on which minCoVotes = 1
\* gives one community of three users and minCoVotes = 2 gives one community
\* of two of them.
CommunityThresholdWitness ==
    /\ CoVoteCountIsSharedProposals
    /\ \E outer, inner \in Perms(Users) :
          /\ CommunitySets(1, outer, inner) = {Users}
          /\ \E c \in CommunitySets(2, outer, inner) : Cardinality(c) = 2

\* C5 (SpecScores): getUserTrustScore(u) for a user u no member of the
\* engine mentions returns exactly 0.5.
UnknownUserTrustDefault ==
    [][(last'.op = "getUserTrustScore" /\ calls' = calls + 1
        /\ last'.user \notin KnownUsers)
       => last'.value = R(1, 2)]_vars

\* C6 (SpecScores): getUserTrustScore(u) for a user u with exactly one
\* recorded event and no credibility score computed yet returns 0.5.
SingleEventTrustDefault ==
    [][(/\ last'.op = "getUserTrustScore" /\ calls' = calls + 1
        /\ last'.user \in DOMAIN userVoteHistory
        /\ Len(userVoteHistory[last'.user]) = 1
        /\ last'.user \notin DOMAIN userCredibilityScores)
       => last'.value = R(1, 2)]_vars

\* C7 (Spec): an alert that is resolved stays resolved: after any call no
\* alert with its identifier is unresolved, and after any call but clearAll
\* it is still in the list, at its place, resolved.
AlertMonotonicLifecycle ==
    [][\A i \in DOMAIN threatAlerts :
          threatAlerts[i].resolved =>
              /\ \A j \in DOMAIN threatAlerts' :
                    threatAlerts'[j].alertId = threatAlerts[i].alertId
                    => threatAlerts'[j].resolved
              /\ last'.op # "clearAll" =>
                    /\ i \in DOMAIN threatAlerts'
                    /\ threatAlerts'[i].alertId = threatAlerts[i].alertId
                    /\ threatAlerts'[i].resolved]_vars

\* C7 witness: a collusion run has just appended an alert to a list that
\* holds a resolved alert.
AlertMonotonicWitness ==
    /\ last.op = "detectCollusion"
    /\ Len(threatAlerts) >= 2
    /\ threatAlerts[1].resolved
    /\ ~threatAlerts[Len(threatAlerts)].resolved
    /\ threatAlerts[Len(threatAlerts)].alertType = "collusion_detected"

\* C9 (SpecScores): every cached BotDetectionResult has botLikelihood in
\* [0, 1], whatever the thresholds configured.
BotLikelihoodBounds ==
    \A u \in DOMAIN botDetectionCache :
        /\ RLe(Zero, botDetectionCache[u].botLikelihood)
        /\ RLe(botDetectionCache[u].botLikelihood, One)

\* C10 (SpecScores): when a recordVoteEvent leaves its user with a rate at
\* or above twice a positive velocityThreshold, the botLikelihood it
\* computes is 1.
ExtremeVelocitySaturates ==
    [][(/\ last'.op = "recordVoteEvent" /\ calls' = calls + 1
        /\ RLt(Zero, velocityThreshold')
        /\ RLe(RMul(RInt(2), velocityThreshold'),
               botDetectionCache'[last'.user].votingVelocity))
       => botDetectionCache'[last'.user].botLikelihood = One]_vars

\* the sum of the weights of the trust score
RECURSIVE SumOver(_, _)
SumOver(w, keys) ==
    IF keys = {} THEN Zero
    ELSE LET k == CHOOSE x \in keys : TRUE
         IN  RAdd(w[k], SumOver(w, keys \ {k}))

\* C11 (SpecScores): the weights of the trust score sum to 1, and every
\* trust score computed (cached, or returned by calculateUserCredibility or
\* getUserTrustScore) lies in [0, 1].
TrustScoreBounds ==
    /\ SumOver(TrustWeights, DOMAIN TrustWeights) = One
    /\ \A u \in DOMAIN userCredibilityScores :
          /\ RLe(Zero, userCredibilityScores[u].trustScore)
          /\ RLe(userCredibilityScores[u].trustScore, One)
    /\ last.op \in {"calculateUserCredibility", "getUserTrustScore"} =>
          RLe(Zero, last.value) /\ RLe(last.value, One)

\* the pairs of members of a group
GroupPairs(group) == {pr \in SUBSET SeqToSet(group) : Cardinality(pr) = 2}

PairWeight(pr) ==
    LET a == CHOOSE x \in pr : TRUE
        b == CHOOSE y \in pr : y # a
    IN  getCoVoteCount(adjacency, a, b)

RECURSIVE SumWeights(_)
SumWeights(prs) ==
    IF prs = {} THEN 0
    ELSE LET pr == CHOOSE x \in prs : TRUE
         IN  PairWeight(pr) + SumWeights(prs \ {pr})

\* min(1, 0.5 x density + 0.5 x min(1, avgCoVotes / 20)) of a group on the
\* current graph
ClampedCollusionScore(group) ==
    LET realized == {pr \in GroupPairs(group) : PairWeight(pr) > 0}
        density == IF GroupPairs(group) = {} THEN Zero
                   ELSE R(Cardinality(realized), Cardinality(GroupPairs(group)))
        avgCoVotes == IF realized = {} THEN Zero
                      ELSE R(SumWeights(realized), Cardinality(realized))
    IN  RMin(One, RAdd(RMul(R(1, 2), density),
                       RMul(R(1, 2), RMin(One, RDiv(avgCoVotes, RInt(20))))))

\* C12 (SpecCollusion): right after a collusion run every group of the
\* result has collusionScore = min(1, 0.5 x density + 0.5 x min(1,
\* avgCoVotes / 20)), density and avgCoVotes taken over the pairs of the
\* group with a co-vote.
CollusionScoreClamped ==
    last.op = "detectCollusion" =>
        \A k \in DOMAIN collusionDetectionCache :
            collusionDetectionCache[k].collusionScore
                = ClampedCollusionScore(collusionDetectionCache[k].userGroup)

\* C13 (SpecScores): a configureThresholds call with a non-positive
\* velocity, gap, collusion or bot-likelihood threshold is rejected: it
\* leaves the configured thresholds as they were.
InvalidConfigurationRejected ==
    [][\A c \in ThresholdConfigs :
          (/\ ConfigureThresholds(MaxScoreCalls, c)
           /\ \E i \in 1..4 : RLe(c[i], Zero))
          => UNCHANGED <<velocityThreshold, deltaThresholdMs,
                         collusionThreshold, botLikelihoodThreshold>>]_vars

\* the users sorted by identifier
SortedUsers == <<"u1", "u2", "u3">>

\* C14 (SpecGraph): for the same graph and minCoVotes, detectCommunities
\* returns the same list of communities, in the same order with the same
\* member order, under every iteration order of the adjacency maps: the one
\* it returns when it traverses the users sorted by identifier.
CommunitiesDeterministic ==
    \A minCoVotes \in 0..MaxMinCoVotes :
        \A outer, inner \in Perms(Users) :
            detectCommunities(adjacency, minCoVotes, outer, inner)
                = detectCommunities(adjacency, minCoVotes, SortedUsers, SortedUsers)

\* C15 (SpecAlerts): in every call, an alert of the list after the call
\* either was in the list before, at its place with its identifier, or is
\* new: unresolved, with an identifier greater than every identifier given
\* out before (the counter, which no call lowers, clearAll included); the
\* identifiers of the list are pairwise distinct, in increasing order.
AlertIdentifiersIncrease ==
    [][/\ alertCounter' >= alertCounter
       /\ \A i \in DOMAIN threatAlerts : threatAlerts[i].alertId <= alertCounter
       /\ \A j \in DOMAIN threatAlerts' :
             \/ /\ j \in DOMAIN threatAlerts
                /\ threatAlerts'[j].alertId = threatAlerts[j].alertId
             \/ /\ threatAlerts'[j].alertId > alertCounter
                /\ threatAlerts'[j].alertId <= alertCounter'
                /\ ~threatAlerts'[j].resolved
       /\ \A i, j \in DOMAIN threatAlerts' :
             i < j => threatAlerts'[i].alertId < threatAlerts'[j].alertId]_vars

\* C15 witness: after a clearAll that removed an alert, an alert has just
\* been created: it is the only one of the list and its identifier is not
\* the first.
AlertIdentifiersWitness ==
    /\ last.op \in {"recordVoteEvent", "detectCollusion"}
    /\ Len(threatAlerts) = 1
    /\ threatAlerts[1].alertId >= 2
    /\ ~threatAlerts[1].resolved

\* the identifiers of the alerts getThreatAlerts returns for this list
AlertIds(alerts, unresolvedOnly) ==
    {a.alertId : a \in SeqToSet(getThreatAlerts([threatAlerts |-> alerts], unresolvedOnly))}

\* C16 (SpecAlerts): no call deletes an alert: an alert of the list is in
\* getThreatAlerts(false) after every call, and an unresolved one is in
\* getThreatAlerts(true) after every call but a resolveThreatAlert with its
\* identifier.
AlertsNeverDeleted ==
    [][\A i \in DOMAIN threatAlerts :
          /\ threatAlerts[i].alertId \in AlertIds(threatAlerts', FALSE)
          /\ (/\ ~threatAlerts[i].resolved
              /\ ~ResolveThreatAlert(MaxAlertCalls, threatAlerts[i].alertId))
             => threatAlerts[i].alertId \in AlertIds(threatAlerts', TRUE)]_vars

\* C17 (SpecAlerts): resolveThreatAlert(id) sets resolved on the alert with
\* that identifier and changes nothing else of the engine; when that alert
\* is resolved already, or no alert has the identifier, the engine is left
\* as it was.
ResolveIdempotentTargeted ==
    [][\A alertId \in 1..(alertCounter + 1) :
          ResolveThreatAlert(MaxAlertCalls, alertId) =>
            /\ Eng' = [Eng EXCEPT !.threatAlerts =
                          [i \in DOMAIN @ |->
                              IF @[i].alertId = alertId
                              THEN [@[i] EXCEPT !.resolved = TRUE]
                              ELSE @[i]]]
            /\ (\A i \in DOMAIN threatAlerts :
                    threatAlerts[i].alertId = alertId => threatAlerts[i].resolved)
               => UNCHANGED <<engineVars, graphVars>>]_vars

\* C17 witness: a resolveThreatAlert has just resolved the second alert of
\* the list and left the first one unresolved.
ResolveTargetedWitness ==
    /\ last.op = "resolveThreatAlert"
    /\ Len(threatAlerts) >= 2
    /\ ~threatAlerts[1].resolved
    /\ threatAlerts[2].resolved

\* C18 (SpecBots): detectAllBots returns the bot results of exactly the
\* users of userVoteHistory whose bot result is suspicious, each once, by
\* non-increasing botLikelihood.
SuspiciousBotsListed ==
    last.op = "detectAllBots" =>
        /\ {last.value[i].userId : i \in DOMAIN last.value}
              = {u \in DOMAIN userVoteHistory : botDetectionCache[u].isSuspicious}
        /\ \A i, j \in DOMAIN last.value :
              i # j => last.value[i].userId # last.value[j].userId
        /\ \A i \in DOMAIN last.value :
              last.value[i] = botDetectionCache[last.value[i].userId]
        /\ \A i, j \in DOMAIN last.value :
              i < j => RLe(last.value[j].botLikelihood, last.value[i].botLikelihood)

\* C18 witness: detectAllBots has just returned two users, the second with
\* a smaller botLikelihood.
SuspiciousBotsWitness ==
    /\ last.op = "detectAllBots"
    /\ Len(last.value) = 2
    /\ RLt(last.value[2].botLikelihood, last.value[1].botLikelihood)

\* three users have each voted once on the same TrioProposals proposals and
\* on no others
TrioVoted ==
    /\ Cardinality(DOMAIN proposalVoters) = TrioProposals
    /\ \A p \in DOMAIN proposalVoters : proposalVoters[p] = Users
    /\ DOMAIN userVoteHistory = Users
    /\ \A u \in Users : Len(userVoteHistory[u]) = TrioProposals

\* C19 (SpecCollusion): a collusion run (minCoVotes = 5) on the votes of
\* TrioVoted returns exactly one community, of the three users, with
\* density 1, 30 co-votes and collusionScore 0.75, suspicious when the
\* collusion threshold is the default 0.7.
TrioCollusionScenario ==
    (last.op = "detectCollusion" /\ TrioVoted) =>
        /\ Len(collusionDetectionCache) = 1
        /\ Len(collusionDetectionCache[1].userGroup) = 3
        /\ SeqToSet(collusionDetectionCache[1].userGroup) = Users
        /\ collusionDetectionCache[1].coVoteRate = One
        /\ collusionDetectionCache[1].coVoteCount = 3 * TrioProposals
        /\ collusionDetectionCache[1].collusionScore = R(3, 4)
        /\ collusionDetectionCache[1].collusionScore
              = ClampedCollusionScore(collusionDetectionCache[1].userGroup)
        /\ collusionThreshold = R(7, 10) => collusionDetectionCache[1].isSuspicious

\* C19 witness: the run has been made at the default threshold and has
\* raised its alert.
TrioCollusionWitness ==
    /\ last.op = "detectCollusion"
    /\ TrioVoted
    /\ collusionThreshold = R(7, 10)
    /\ MinCoVotesForCollusion = 5
    /\ \E i \in DOMAIN threatAlerts :
          /\ threatAlerts[i].alertType = "collusion_detected"
          /\ threatAlerts[i].severity = R(3, 4)
          /\ SeqToSet(threatAlerts[i].involvedUsers) = Users

\* user u has recorded BotEvents events, each 100 ms after the one before,
\* and the thresholds are 30 events per minute and 200 ms
BotVoted(u) ==
    /\ u \in DOMAIN userVoteHistory
    /\ Len(userVoteHistory[u]) = BotEvents
    /\ \A i \in 2..BotEvents :
          userVoteHistory[u][i].timestamp =
              userVoteHistory[u][i - 1].timestamp + 100 * TicksPerMs
    /\ velocityThreshold = RInt(30)
    /\ deltaThresholdMs = RInt(200)

\* C20 (SpecBots): after 50 events of one user 100 ms apart, with a window
\* of 60 s and the thresholds 30 and 200, the user's bot result is
\* suspicious and its botLikelihood is 0.4 x min(1, 50/60)
\* + 0.4 x (1 - 100/200), plus 0.3 for a single device and 0.2 for a single
\* ip, clamped to 1.
BotScenario ==
    \A u \in EngineUsers :
        BotVoted(u) =>
            /\ WindowSeconds = 60
            /\ botDetectionCache[u].isSuspicious
            /\ botDetectionCache[u].votingVelocity = RInt(BotEvents)
            /\ botDetectionCache[u].avgInterVoteGapMs = RInt(100)
            /\ botDetectionCache[u].botLikelihood
                  = RMin(One,
                         RAdd(RAdd(RMul(R(4, 10), RMin(One, R(BotEvents, 60))),
                                   RMul(R(4, 10), RSub(One, R(100, 200)))),
                              RAdd(IF Cardinality(userDevices[u]) = 1 THEN R(3, 10) ELSE Zero,
                                   IF Cardinality(userIPs[u]) = 1 THEN R(2, 10) ELSE Zero)))

\* C20 witness: detectAllBots has just listed the user of the scenario, who
\* has one device and one ip, with botLikelihood 1.
BotScenarioWitness ==
    /\ last.op = "detectAllBots"
    /\ BotVoted("u1")
    /\ Cardinality(userDevices["u1"]) = 1
    /\ Cardinality(userIPs["u1"]) = 1
    /\ Len(last.value) >= 1
    /\ last.value[1].userId = "u1"
    /\ last.value[1].isSuspicious
    /\ last.value[1].botLikelihood = One

\* an engine that has ingested no event, with the thresholds and the alert
\* counter of e
FreshLike(e) ==
    [NewEngine(e.velocityThreshold, e.deltaThresholdMs, e.alertCounter)
        EXCEPT !.collusionThreshold = e.collusionThreshold,
               !.botLikelihoodThreshold = e.botLikelihoodThreshold]

\* C21 (SpecAlerts): a clearAll leaves the per-user state, the co-vote
\* graph, the identity indexes, the bot, collusion and credibility caches,
\* the alert list and the suspicious flags empty and keeps the configured
\* thresholds, so every query answers as on an engine that has ingested no
\* event.
ResetEmptiesEngine ==
    [][ClearAll(MaxAlertCalls) =>
          /\ Eng' = FreshLike(Eng)
          /\ getThreatAlerts(Eng', FALSE) = <<>>
          /\ \A u \in Users :
                /\ ~isUserSuspicious(Eng', u)
                /\ detectBot(Eng', u).result = detectBot(FreshLike(Eng), u).result
                /\ getUserTrustScore(Eng', u).value
                      = getUserTrustScore(FreshLike(Eng), u).value
                /\ \A v \in Users : getCoVoteCount(adjacency', u, v) = 0
          /\ \A ord \in AlertOrders :
                updateCollusionDetection(Eng', ord, ord).collusionDetectionCache = <<>>]_vars

\* C21 witness: a clearAll has just emptied an engine that had raised an
\* alert and had been given other thresholds than the default ones.
ResetEmptiesWitness ==
    /\ last.op = "clearAll"
    /\ alertCounter > 0
    /\ botLikelihoodThreshold # R(7, 10)
    /\ threatAlerts = <<>>
    /\ KnownUsers = {}

\* castVote(u, p) has returned true before: the audit log holds its entry
AcceptedVote(u, p) ==
    \E i \in DOMAIN auditLog : auditLog[i] = LogData("Vote cast", u, p)

\* C22 (SpecVoting): a castVote for a user and a proposal for which a
\* castVote has been accepted before returns false and leaves the users,
\* the proposals and the audit log unchanged, and after every call the
\* vote count of each proposal is the number of users with an accepted
\* vote on it.
CastVoteOnce ==
    [][/\ \A u \in UserIds, p \in ProposalIds :
              (/\ last'.op = "castVote"
               /\ last'.user = u
               /\ last'.value.proposal = p
               /\ AcceptedVote(u, p))
                  => /\ last'.value.result = FALSE
                     /\ UNCHANGED <<users, proposals, auditLog>>
       /\ \A p \in DOMAIN proposals' :
              proposals'[p].voteCount
                  = Cardinality({u \in UserIds : AcceptedVote(u, p)'})]_vars

IsPrefix(a, b) == Len(a) <= Len(b) /\ a = SubSeq(b, 1, Len(a))

Min(a, b) == IF a < b THEN a ELSE b

\* C23 (SpecStream): after every call the events passed to the handlers
\* are a prefix of the events produce has queued, in the order they were
\* produced, and a consume(maxEvents) call on a running processor
\* processes min(maxEvents, queue size) events.
StreamFifo ==
    [][/\ IsPrefix(delivered', accepted')
       /\ (last'.op = "consume" /\ isRunning)
             => last'.value.processed = Min(last'.value.maxEvents, Len(eventQueue))]_vars

\* the cached bot result of u is suspicious with a likelihood above the
\* alert threshold
AboveAlertThreshold(cache, u, threshold) ==
    /\ u \in DOMAIN cache
    /\ cache[u].isSuspicious
    /\ RLt(threshold, cache[u].botLikelihood)

\* the bot_detected alerts that name u
BotAlerts(alerts, u) ==
    {i \in DOMAIN alerts :
        alerts[i].alertType = "bot_detected" /\ alerts[i].involvedUsers = <<u>>}

\* C24 (SpecAlerts): a recordVoteEvent for a user whose bot result was
\* suspicious with a likelihood above the alert threshold before the call
\* and is so after it creates no bot_detected alert for that user.
BotAlertOnlyOnCrossing ==
    [][\A u \in Users :
          (/\ last'.op = "recordVoteEvent"
           /\ last'.user = u
           /\ AboveAlertThreshold(botDetectionCache, u, botLikelihoodThreshold)
           /\ AboveAlertThreshold(botDetectionCache', u, botLikelihoodThreshold'))
              => Cardinality(BotAlerts(threatAlerts', u))
                    = Cardinality(BotAlerts(threatAlerts, u))]_vars

\* C25 (SpecScores): after a recordVoteEvent for a user whose credibility
\* score was cached, getUserTrustScore for that user returns the score
\* computed from the state after the event, not the cached one.
EventInvalidatesTrustScore ==
    [][\A u \in EngineUsers :
          (/\ last'.op = "recordVoteEvent"
           /\ last'.user = u
           /\ u \in DOMAIN userCredibilityScores)
              => getUserTrustScore(Eng', u).value
                    = calculateUserCredibility(Eng', u).score.trustScore]_vars

\* the users of the graph
GraphUsers(adj) == DOMAIN adj \cup UNION {DOMAIN adj[u] : u \in DOMAIN adj}

\* u and v are joined by an edge of weight minCoVotes or more
StrongEdge(adj, minCoVotes, u, v) ==
    \/ u \in DOMAIN adj /\ v \in DOMAIN adj[u] /\ adj[u][v] >= minCoVotes
    \/ v \in DOMAIN adj /\ u \in DOMAIN adj[v] /\ adj[v][u] >= minCoVotes

\* the users joined to a user of S by a path of such edges, S included
RECURSIVE Reach(_, _, _)
Reach(adj, minCoVotes, S) ==
    LET T == S \cup {v \in GraphUsers(adj) :
                        \E u \in S : StrongEdge(adj, minCoVotes, u, v)}
    IN  IF T = S THEN S ELSE Reach(adj, minCoVotes, T)

\* the connected components with two users or more of the graph restricted
\* to the edges of weight minCoVotes or more
Components(adj, minCoVotes) ==
    {c \in {Reach(adj, minCoVotes, {u}) : u \in GraphUsers(adj)} : Cardinality(c) >= 2}

\* the results of a collusion run that are suspicious
SuspiciousGroups(cache) == SelectSeq(cache, LAMBDA r : r.isSuspicious)

\* C26 (SpecCollusion): after a detectCollusion the cache holds one result
\* for each group of two users or more of the current graph and nothing
\* else, the run has appended one collusion_detected alert for each of its
\* suspicious groups, listing the members, and every member of a
\* suspicious group is marked suspicious.
CollusionRunReplacesCache ==
    [][last'.op = "detectCollusion" =>
          LET groups == Components(adjacency', MinCoVotesForCollusion)
              found == SuspiciousGroups(collusionDetectionCache')
          IN  /\ Len(collusionDetectionCache') = Cardinality(groups)
              /\ \A g \in groups :
                    \E k \in DOMAIN collusionDetectionCache' :
                        /\ SeqToSet(collusionDetectionCache'[k].userGroup) = g
                        /\ Len(collusionDetectionCache'[k].userGroup) = Cardinality(g)
              /\ Len(threatAlerts') = Len(threatAlerts) + Len(found)
              /\ SubSeq(threatAlerts', 1, Len(threatAlerts)) = threatAlerts
              /\ \A i \in DOMAIN found :
                    /\ threatAlerts'[Len(threatAlerts) + i].alertType = "collusion_detected"
                    /\ threatAlerts'[Len(threatAlerts) + i].involvedUsers = found[i].userGroup
                    /\ ~threatAlerts'[Len(threatAlerts) + i].resolved
                    /\ \A u \in SeqToSet(found[i].userGroup) : isUserSuspicious(Eng', u)]_vars

\* C26 witness: a detectCollusion on an engine whose cache held the result
\* of an earlier run has left one result, which is suspicious, and has
\* appended its alert to the alert of the earlier run.
CollusionRunWitness ==
    /\ last.op = "detectCollusion"
    /\ Len(collusionDetectionCache) = 1
    /\ collusionDetectionCache[1].isSuspicious
    /\ Len(threatAlerts) = 2
    /\ threatAlerts[2].involvedUsers = collusionDetectionCache[1].userGroup
    /\ \A u \in SeqToSet(collusionDetectionCache[1].userGroup) : suspiciousUsers[u]

\* C27 (SpecAlerts): a recordVoteEvent that leaves its user suspicious
\* with a botLikelihood above the alert threshold leaves a bot_detected
\* alert naming the user and isUserSuspicious true for the user; and a user
\* for whom isUserSuspicious is true keeps it true through every call but
\* clearAll and a clearUser of that user.
StickySuspicion ==
    [][\A u \in Users :
          /\ (/\ last'.op = "recordVoteEvent"
               /\ last'.user = u
               /\ AboveAlertThreshold(botDetectionCache', u, botLikelihoodThreshold'))
                  => /\ BotAlerts(threatAlerts', u) # {}
                     /\ isUserSuspicious(Eng', u)
          /\ (isUserSuspicious(Eng, u) /\ ~isUserSuspicious(Eng', u))
                  => \/ last'.op = "clearAll"
                     \/ last'.op = "clearUser" /\ last'.user = u]_vars

\* C27 witness: the user of a bot_detected alert is still marked after a
\* later recordVoteEvent that left the user below the alert threshold.
StickySuspicionWitness ==
    /\ last.op = "recordVoteEvent"
    /\ last.user = "u1"
    /\ ~AboveAlertThreshold(botDetectionCache, "u1", botLikelihoodThreshold)
    /\ BotAlerts(threatAlerts, "u1") # {}
    /\ isUserSuspicious(Eng, "u1")

\* the rate of a window: its events per minute
WindowRate(ts) == R(Len(ts) * 60, WindowSeconds)

\* the mean gap of a window in ms, for time points that are whole
\* milliseconds apart: the gaps between neighbours add up to
\* the distance from the first to the last time point
WindowAvgGapMs(ts) ==
    IF Len(ts) < 2 THEN Zero
    ELSE R(ts[Len(ts)] - ts[1], (Len(ts) - 1) * TicksPerMs)

\* C28 (SpecBots): after a recordVoteEvent for user u the cached bot
\* result has isSuspicious = (rate > velocityThreshold) or (avgGapMs > 0
\* and avgGapMs < gapThresholdMs), for the rate and the mean gap of the
\* window of u after the insertion; when all time points of the window
\* are the same the gap rule does not trigger.
SuspiciousRule ==
    [][\A u \in EngineUsers :
          (last'.op = "recordVoteEvent" /\ last'.user = u) =>
              LET ts == userVelocityWindows'[u]
                  rate == WindowRate(ts)
                  avgGapMs == WindowAvgGapMs(ts)
              IN  /\ botDetectionCache'[u].isSuspicious
                        = (\/ RLt(velocityThreshold', rate)
                           \/ RLt(Zero, avgGapMs) /\ RLt(avgGapMs, deltaThresholdMs'))
                  /\ (\A i \in DOMAIN ts : ts[i] = ts[1])
                        => botDetectionCache'[u].isSuspicious = RLt(velocityThreshold', rate)]_vars

\* C28 witness: a recordVoteEvent has left two events with the same time
\* point in the window of its user, a rate below the velocity threshold,
\* and a result that is not suspicious.
SuspiciousRuleWitness ==
    /\ last.op = "recordVoteEvent"
    /\ Len(userVelocityWindows[last.user]) = 2
    /\ userVelocityWindows[last.user][1] = userVelocityWindows[last.user][2]
    /\ RLt(Zero, deltaThresholdMs)
    /\ RLt(WindowRate(userVelocityWindows[last.user]), velocityThreshold)
    /\ ~botDetectionCache[last.user].isSuspicious

\* the distinct hashes, of the ip or of the device, that the events of a
\* history carry
SeenHashes(history, field) ==
    {history[i][field] : i \in DOMAIN history} \ {""}

\* min(1, 0.4 min(1, rate/(2 velocityThreshold)) + 0.4 g + 0.3 d + 0.2 i)
BlendedLikelihood(rate, avgGapMs, devices, ips, velThreshold, gapThreshold) ==
    LET g == IF RLt(Zero, avgGapMs) /\ RLt(avgGapMs, gapThreshold)
             THEN RSub(One, RDiv(avgGapMs, gapThreshold))
             ELSE Zero
        d == IF devices = 1 THEN One ELSE Zero
        i == IF ips = 1 THEN One ELSE Zero
        v == RMin(One, RDiv(rate, RMul(RInt(2), velThreshold)))
    IN  RMin(One, RAdd(RAdd(RMul(R(4, 10), v), RMul(R(4, 10), g)),
                       RAdd(RMul(R(3, 10), d), RMul(R(2, 10), i))))

\* C29 (SpecBots): the botLikelihood a recordVoteEvent caches for its user
\* is min(1, 0.4 min(1, rate/(2 velocityThreshold)) + 0.4 g + 0.3 d
\* + 0.2 i), with g = 1 - avgGapMs/gapThresholdMs when 0 < avgGapMs <
\* gapThresholdMs and 0 otherwise, d = 1 iff the user's events carry
\* exactly one distinct device hash and i = 1 iff exactly one distinct ip
\* hash.
LikelihoodBlend ==
    [][\A u \in EngineUsers :
          (last'.op = "recordVoteEvent" /\ last'.user = u) =>
              botDetectionCache'[u].botLikelihood
                 = BlendedLikelihood(WindowRate(userVelocityWindows'[u]),
                                     WindowAvgGapMs(userVelocityWindows'[u]),
                                     Cardinality(SeenHashes(userVoteHistory'[u], "deviceHash")),
                                     Cardinality(SeenHashes(userVoteHistory'[u], "ipHash")),
                                     velocityThreshold', deltaThresholdMs')]_vars

\* C29 witness: a recordVoteEvent has left its user with a mean gap
\* between 0 and the gap threshold, one device, one ip and a botLikelihood
\* strictly between 0 and 1.
LikelihoodBlendWitness ==
    /\ last.op = "recordVoteEvent"
    /\ RLt(Zero, botDetectionCache[last.user].avgInterVoteGapMs)
    /\ RLt(botDetectionCache[last.user].avgInterVoteGapMs, deltaThresholdMs)
    /\ botDetectionCache[last.user].deviceDiversity = 1
    /\ botDetectionCache[last.user].ipDiversity = 1
    /\ RLt(Zero, botDetectionCache[last.user].votingVelocity)
    /\ RLt(Zero, botDetectionCache[last.user].botLikelihood)
    /\ RLt(botDetectionCache[last.user].botLikelihood, One)

\* the iteration orders of the maps in SpecCommunities
CommunityOrders ==
    { <<"u1", "u2", "u3", "u4">>, <<"u4", "u3", "u2", "u1">>,
      <<"u2", "u4", "u1", "u3">>, <<"u3", "u1", "u4", "u2">> }

\* C30 (SpecCommunities): detectCommunities(minCoVotes) returns exactly the
\* connected components with two users or more of the graph restricted to
\* the edges of weight minCoVotes or more: each component once, no user
\* twice, and nothing else.
CommunitiesAreComponents ==
    \A minCoVotes \in 1..MaxMinCoVotes :
        \A outer \in CommunityOrders, inner \in CommunityOrders :
            LET communities == detectCommunities(adjacency, minCoVotes, outer, inner)
                components == Components(adjacency, minCoVotes)
            IN  /\ Len(communities) = Cardinality(components)
                /\ \A k \in DOMAIN communities :
                      /\ SeqToSet(communities[k]) \in components
                      /\ Len(communities[k]) = Cardinality(SeqToSet(communities[k]))
                /\ \A k, l \in DOMAIN communities :
                      k # l => SeqToSet(communities[k]) \cap SeqToSet(communities[l]) = {}
                /\ \A c \in components :
                      \E k \in DOMAIN communities : SeqToSet(communities[k]) = c

\* C30 witness: the graph has two communities side by side at minCoVotes 1.
TwoCommunitiesWitness ==
    /\ Components(adjacency, 1) = {{"u1", "u2"}, {"u3", "u4"}}
    /\ Len(detectCommunities(adjacency, 1, <<"u1", "u2", "u3", "u4">>,
                              <<"u1", "u2", "u3", "u4">>)) = 2

\* the highest score of the groups of a collusion run that hold u, 0 if none
HighestCollusionScore(cache, u) ==
    LET scores == {cache[k].collusionScore :
                      k \in {i \in DOMAIN cache : u \in SeqToSet(cache[i].userGroup)}}
    IN  IF scores = {} THEN Zero
        ELSE CHOOSE s \in scores : \A r \in scores : RLe(r, s)

\* the trust score of u computed from the state e: the weighted sum of the
\* eight factors, with u's bot result of e and a collusion run on e's graph
FreshTrustScore(e, u) ==
    LET devices == Cardinality(e.userDevices[u])
        run == updateCollusionDetection(e, <<"u1", "u2", "u3">>, <<"u1", "u2", "u3">>)
        age == RMin(One, R(Len(e.userVoteHistory[u]), 50))
        diversity == IF devices = 0 THEN R(1, 2) ELSE IF devices = 1 THEN R(4, 5)
                     ELSE IF devices = 2 THEN R(3, 5) ELSE R(3, 10)
        bot == detectBot(e, u).result.botLikelihood
        collusion == HighestCollusionScore(run.collusionDetectionCache, u)
    IN  RAdd(RAdd(RAdd(RMul(R(20, 100), age), RMul(R(15, 100), diversity)),
                  RAdd(RMul(R(15, 100), R(1, 2)), RMul(R(10, 100), R(1, 2)))),
             RAdd(RAdd(RMul(R(15, 100), RSub(One, bot)),
                       RMul(R(15, 100), RSub(One, collusion))),
                  RAdd(RMul(R(5, 100), R(1, 2)), RMul(R(5, 100), One))))

\* C31: after calculateAllCredibilityScores every user with a vote history
\* has a cached trust score equal to the score computed afresh from the
\* state (the user's bot result, the highest score of the user's groups in a
\* collusion run on the graph as it is, 0 if in none); a getUserTrustScore
\* about a user with a cached score returns that score and leaves the cache
\* as it was
BulkRecomputeIsFresh ==
    [][ /\ last'.op = "calculateAllCredibilityScores" =>
              \A u \in DOMAIN userVoteHistory' :
                  /\ u \in DOMAIN userCredibilityScores'
                  /\ userCredibilityScores'[u].trustScore = FreshTrustScore(Eng', u)
        /\ (last'.op = "getUserTrustScore" /\ last'.user \in DOMAIN userCredibilityScores) =>
              /\ last'.value = userCredibilityScores[last'.user].trustScore
              /\ userCredibilityScores' = userCredibilityScores ]_vars

\* C31 witness: a bulk recomputation after a recorded vote has cached, for a
\* member of a collusion group, a score that counts the group's collusion score
BulkRecomputeWitness ==
    /\ last.op = "calculateAllCredibilityScores"
    /\ calls >= 2
    /\ "u1" \in DOMAIN userCredibilityScores
    /\ RLt(Zero, userCredibilityScores["u1"].collusionScore)
    /\ \E k \in DOMAIN collusionDetectionCache :
           "u1" \in SeqToSet(collusionDetectionCache[k].userGroup)

\* C32: a detectBot or getUserTrustScore about a user with no recorded event
\* is read-only: the user does not become a key of the vote histories, and
\* the histories, windows, identity indexes, graph, caches, alerts and flags
\* are what they were before the call
UnknownUserQueryReadOnly ==
    [][ (/\ last'.op \in {"detectBot", "getUserTrustScore"}
         /\ last'.user \notin DOMAIN userVoteHistory)
        => /\ last'.user \notin DOMAIN userVoteHistory'
           /\ UNCHANGED <<graphVars, engineVars>> ]_vars

\* C33: after clearUser(u) nothing derived from u's events remains: u has
\* co-vote count 0 with every user, is in no proposal's voter set, in no
\* list of the users of an ip hash or of a device hash, and in no cached
\* collusion group
ClearUserForgetsUser ==
    [][ last'.op = "clearUser" =>
          /\ \A v \in Users : getCoVoteCount(adjacency', last'.user, v) = 0
          /\ \A p \in DOMAIN proposalVoters' : last'.user \notin proposalVoters'[p]
          /\ \A i \in DOMAIN ipToUsers' : last'.user \notin SeqToSet(ipToUsers'[i])
          /\ \A d \in DOMAIN deviceToUsers' : last'.user \notin SeqToSet(deviceToUsers'[d])
          /\ \A k \in DOMAIN collusionDetectionCache' :
                 last'.user \notin SeqToSet(collusionDetectionCache'[k].userGroup) ]_vars

\* the graph after the addVote calls of votes (a sequence of
\* <<user, proposal>> pairs), in their order, on graph g
RECURSIVE addVotes(_, _)
addVotes(g, votes) ==
    IF votes = <<>> THEN g
    ELSE addVotes(addVote(g, Head(votes)[1], Head(votes)[2]), Tail(votes))

\* the edge weights and the voter sets of graph g
EdgeWeights(g) == [u \in Users, v \in Users |-> getCoVoteCount(g.adjacency, u, v)]
VoterSets(g) ==
    [p \in Proposals |-> IF p \in DOMAIN g.proposalVoters THEN g.proposalVoters[p] ELSE {}]

\* the orders the elements of S can be put in
RECURSIVE Orders(_)
Orders(S) ==
    IF S = {} THEN {<<>>}
    ELSE UNION {{<<x>> \o o : o \in Orders(S \ {x})} : x \in S}

\* the distinct (user, proposal) pairs recorded in the graph
RecordedVotes == {pr \in Users \X Proposals :
                     pr[2] \in DOMAIN proposalVoters /\ pr[1] \in proposalVoters[pr[2]]}

\* C34: applied to an empty graph, the recorded (user, proposal) pairs, each
\* once, yield in every order the same edge weights and the same voter sets
CoVoteCommutative ==
    \E orders \in {Orders(RecordedVotes)} :
        \E first \in {addVotes([adjacency |-> Empty, proposalVoters |-> Empty],
                               CHOOSE o \in orders : TRUE)} :
            \A o1 \in orders :
                LET g1 == addVotes([adjacency |-> Empty, proposalVoters |-> Empty], o1)
                IN  EdgeWeights(g1) = EdgeWeights(first) /\ VoterSets(g1) = VoterSets(first)

\* C34 witness: four or more pairs are recorded, each once, the graph is the
\* one they yield, and two users share both proposals
CoVoteCommutativeWitness ==
    /\ Cardinality(RecordedVotes) >= 4
    /\ \E o \in Orders(RecordedVotes) :
           EdgeWeights(addVotes([adjacency |-> Empty, proposalVoters |-> Empty], o))
               = EdgeWeights(Graph)
    /\ \E u, v \in Users : u # v /\ getCoVoteCount(adjacency, u, v) = 2

\* C35: a detectCommunities that runs next to a vote being recorded reads a
\* graph with no vote applied in part: the weights are symmetric and no
\* pair of users has a weight below the number of proposals both are
\* recorded voters of
ConsistentSnapshot ==
    last.op = "detectCommunities" =>
        \A u, v \in Users :
            /\ getCoVoteCount(adjacency, u, v) = getCoVoteCount(adjacency, v, u)
            /\ u # v => getCoVoteCount(adjacency, u, v) >= SharedProposals(u, v)

\* map m2 holds for key k what map m holds for it: the same value or nothing
SameEntry(m, m2, k) ==
    /\ k \in DOMAIN m <=> k \in DOMAIN m2
    /\ k \in DOMAIN m => m[k] = m2[k]

\* C36: recordVoteEvent for user u leaves, for every other user, the vote
\* history, the sliding window, the ip and device sets, the cached bot
\* result, the cached credibility score and the suspicious flag as they
\* were; the alerts raised before are kept as they were and every alert the
\* call raises names u
RecordVoteEventFrame ==
    [][ last'.op = "recordVoteEvent" =>
          /\ \A v \in Users \ {last'.user} :
                /\ SameEntry(userVoteHistory, userVoteHistory', v)
                /\ SameEntry(userVelocityWindows, userVelocityWindows', v)
                /\ SameEntry(userIPs, userIPs', v)
                /\ SameEntry(userDevices, userDevices', v)
                /\ SameEntry(botDetectionCache, botDetectionCache', v)
                /\ SameEntry(userCredibilityScores, userCredibilityScores', v)
                /\ SameEntry(suspiciousUsers, suspiciousUsers', v)
          /\ Len(threatAlerts') >= Len(threatAlerts)
          /\ SubSeq(threatAlerts', 1, Len(threatAlerts)) = threatAlerts
          /\ \A k \in (Len(threatAlerts) + 1)..Len(threatAlerts') :
                 last'.user \in SeqToSet(threatAlerts'[k].involvedUsers) ]_vars

\* C36 witness: a recordVoteEvent of u has raised a bot alert on u while
\* another user has a vote history, a window, ip and device sets and a
\* cached bot result
RecordVoteEventFrameWitness ==
    /\ last.op = "recordVoteEvent"
    /\ threatAlerts # <<>>
    /\ threatAlerts[Len(threatAlerts)].alertType = "bot_detected"
    /\ threatAlerts[Len(threatAlerts)].involvedUsers = <<last.user>>
    /\ \E v \in EngineUsers \ {last.user} :
          /\ v \in DOMAIN userVoteHistory /\ v \in DOMAIN userVelocityWindows
          /\ v \in DOMAIN userIPs /\ v \in DOMAIN userDevices
          /\ v \in DOMAIN botDetectionCache

\* C37: when the time points arrive in non-decreasing order, the window
\* after addEvent(t) holds the time points held before and t, less those
\* before t - windowDuration (one at the cutoff stays); its rate is
\* count / windowDuration * 60 and its mean gap in ms is
\* (newest - oldest) / (count - 1), or 0 with fewer than 2 time points
OrderedWindowQuantities ==
    [][ last'.op = "addEvent" =>
          LET cutoff == inserted' - WindowSeconds * 1000 * TicksPerMs
              count == Len(timestamps')
          IN  /\ timestamps' = SelectSeq(Append(timestamps, inserted'),
                                         LAMBDA x : x >= cutoff)
              /\ getRate(timestamps') = RMul(R(count, WindowSeconds), RInt(60))
              /\ getAverageGapMs(timestamps') =
                    IF count < 2 THEN Zero
                    ELSE R(timestamps'[count] - timestamps'[1],
                           (count - 1) * TicksPerMs) ]_vars

\* C38: the result detectBot returns for a user agrees with the thresholds
\* in force: its botLikelihood and its isSuspicious are those computed from
\* the user's window and identity sets under the configured thresholds,
\* whether or not an event arrived since they were configured
ThresholdsTakeEffect ==
    last.op = "detectBot" =>
        LET fresh == updateBotDetection(Eng, last.user).botDetectionCache[last.user]
        IN  /\ last.value = fresh.botLikelihood
            /\ botDetectionCache[last.user].isSuspicious = fresh.isSuspicious

\* C39: the queue never holds more than maxQueueSize events; produce on a
\* full queue returns false and leaves the queue as it was; produce on a
\* queue that is not full returns true and appends its event at the tail,
\* running or not; consume on a stopped processor returns 0 and leaves the
\* queue as it was
StreamCapacity ==
    /\ [](Len(eventQueue) <= MaxQueueSize)
    /\ [][ /\ last'.op = "produce" =>
                IF Len(eventQueue) >= MaxQueueSize
                THEN last'.value = FALSE /\ eventQueue' = eventQueue
                ELSE /\ last'.value = TRUE
                     /\ Len(eventQueue') = Len(eventQueue) + 1
                     /\ SubSeq(eventQueue', 1, Len(eventQueue)) = eventQueue
                     /\ eventQueue'[Len(eventQueue')].payload = calls'
           /\ (last'.op = "consume" /\ ~isRunning) =>
                last'.value.processed = 0 /\ eventQueue' = eventQueue ]_vars

\* C39 witness: on a stopped processor whose queue was filled by produce
\* calls, a further produce has returned false
StreamCapacityWitness ==
    /\ last.op = "produce"
    /\ last.value = FALSE
    /\ ~isRunning
    /\ Len(eventQueue) = MaxQueueSize
    /\ accepted = eventQueue

\* C40: no event leaves the queue without having been passed to a handler,
\* and on a processor that is started and keeps being drained every event
\* produce has accepted is in the end passed to a handler
NoAcceptedEventLost ==
    /\ [][ \A i \in DOMAIN eventQueue :
              eventQueue[i] \in SeqToSet(eventQueue') \cup SeqToSet(delivered') ]_vars
    /\ \A eventType \in EventTypes, payload \in 1..MaxStreamCalls :
          (StreamEvent(eventType, payload) \in SeqToSet(accepted))
              ~> (StreamEvent(eventType, payload) \in SeqToSet(delivered))

====
